---- MODULE Spec2Model ----
(***************************************************************************)
(* German POS Highlighter: the highlight engine (Highlighter object), the  *)
(* tooltip controller and the content script that drives them.             *)
(*                                                                         *)
(* The DOM of a container is its sequence of text nodes in document order. *)
(* A text node records its characters, the inline element it sits in       *)
(* (el = 0: a direct child of the container) and the marker span that      *)
(* wraps it (mk = 0: none).  A marker span always wraps one text node.     *)
(***************************************************************************)
EXTENDS Integers, Sequences, FiniteSets, TLC

VARIABLES
  doc,                \* container -> sequence of text nodes (document order)
  currentHighlights,  \* Highlighter.currentHighlights: marker ids, push order
  currentContainer,   \* Highlighter.currentContainer
  hideTooltipTimer,   \* Highlighter.hideTooltipTimer: 0 (null) or a timer id
  timers,             \* timer ids the browser still has to fire
  tooltips,           \* number of elements with id german-pos-tooltip
  tooltipBox,         \* left, top, width, height of the tooltip shown last
  hovered,            \* marker under the pointer (NoMarker: none)
  hung,               \* the page's script thread is stuck in a loop
  isExtensionEnabled, \* content.js isExtensionEnabled
  justHighlighted,    \* content.js justHighlighted
  pending,            \* analysis requests in flight (awaited fetches)
  sentenceCache,      \* content.js sentenceCache, in insertion order
  hotkeys,            \* content.js analyzeModifier, ankiModifier1, ankiModifier2
  listeners,          \* how often attachEventListeners has registered its listeners
  storage,            \* chrome.storage.sync: the enabled flag and the settings
  storageEvents,      \* storage.onChanged events the background has yet to get
  badge,              \* the text of the extension's badge
  messages,           \* toggleHighlighting messages on their way to the tab
  settingsUpdated,    \* settingsUpdated messages on their way to the tab
  lastAnalyzed,       \* content.js lastAnalyzedWord, lastAnalyzedSentence,
                      \* lastAnalysisResult
  last                \* the last operation, its inputs and the DOM before it

\* the popup, the background and the content script's registration
popupvars == <<hotkeys, listeners, storage, storageEvents, badge, messages,
               settingsUpdated>>

\* the extension around the Highlighter and the page's clicks
extvars == <<hotkeys, listeners, storage, storageEvents, badge, messages,
             settingsUpdated, lastAnalyzed>>

vars == <<doc, currentHighlights, currentContainer, hideTooltipTimer, timers,
          tooltips, tooltipBox, hovered, hung, isExtensionEnabled, justHighlighted,
          pending, sentenceCache, hotkeys, listeners, storage, storageEvents,
          badge, messages, settingsUpdated, lastAnalyzed, last>>

Null == "null"

Max(a, b) == IF a > b THEN a ELSE b
Min(a, b) == IF a < b THEN a ELSE b

(***************************************************************************)
(* Strings are sequences of one-character strings.                         *)
(***************************************************************************)
toLowerCase(s) ==
  [i \in 1..Len(s) |->
     CASE s[i] = "A" -> "a"
       [] s[i] = "B" -> "b"
       [] s[i] = "C" -> "c"
       [] s[i] = "I" -> "i"
       [] s[i] = "U" -> "u"
       [] OTHER -> s[i]]

\* String.prototype.indexOf: the first 0-based index of needle, or -1
indexOf(hay, needle) ==
  LET hits == {i \in 0..(Len(hay) - Len(needle)) :
                  SubSeq(hay, i + 1, i + Len(needle)) = needle}
  IN IF hits = {} THEN -1 ELSE CHOOSE i \in hits : \A j \in hits : i <= j

(***************************************************************************)
(* The page: two paragraphs.                                               *)
(*   p1:  <p>zz. ab cde <b>a</b>b.</p>                                     *)
(*   p2:  <p>ab <i>c</i>de ab.</p>                                         *)
(***************************************************************************)
Containers == {"p1", "p2"}

NoData == [lemma |-> "", separable |-> FALSE]

\* a marker span is identified by <<container, generation, number>>: the
\* spans of one applyHighlights call share the generation
NoMarker == <<>>

\* anc: the markers above the parent marker mk; raises: the DOM call on this
\* node that throws ("none", "setStart" or "surroundContents")
TextNode(t, e) ==
  [text |-> t, el |-> e, mk |-> NoMarker, data |-> NoData, anc |-> <<>>,
   raises |-> "none"]

InitDoc ==
  [c \in Containers |->
     IF c = "p1"
     THEN << TextNode(<<"z","z","."," ","a","b"," ","c","d","e"," ">>, 0),
             TextNode(<<"a">>, 1),
             TextNode(<<"b",".">>, 0) >>
     ELSE << TextNode(<<"a","b"," ">>, 0),
             TextNode(<<"c">>, 1),
             TextNode(<<"d","e"," ","a","b",".">>, 0) >>]

RECURSIVE Concat(_)
Concat(ss) == IF ss = <<>> THEN <<>> ELSE Head(ss) \o Concat(Tail(ss))

\* Node.textContent of a container
textContent(nodes) == Concat([i \in 1..Len(nodes) |-> nodes[i].text])

\* container.querySelectorAll('.german-pos-highlight'), as marker ids
MarkerIds(nodes) ==
  {nodes[i].mk : i \in {j \in 1..Len(nodes) : nodes[j].mk # NoMarker}}

AllMarkerIds(d) == UNION {MarkerIds(d[c]) : c \in Containers}

ContainerOf(d, m) == CHOOSE c \in Containers : m \in MarkerIds(d[c])

SeqToSet(s) == {s[i] : i \in 1..Len(s)}

\* a fresh object identity: the least number not in use
NewId(used) == CHOOSE i \in 1..(Cardinality(used) + 1) : i \notin used

\* a new span element of generation gen = <<container, generation>>
NewSpan(gen, used) ==
  LET taken == {m[3] : m \in {u \in used : u[1] = gen[1] /\ u[2] = gen[2]}}
  IN <<gen[1], gen[2], NewId(taken)>>

\* the generation of the spans a call on container c creates: one that no
\* span still referenced carries
NewGeneration(c, used) ==
  IF \E u \in used : u[1] = c /\ u[2] = 0 THEN <<c, 1>> ELSE <<c, 0>>

(***************************************************************************)
(* Analysis results (POST /api/v1/analyze).  The sentence "ab cde ab." has *)
(* the tokens ab [0,2), cde [3,6) and ab [7,9); the sentence "zz." has the *)
(* token zz [0,2).  paired_with is null, a single start offset or an array *)
(* of start offsets.                                                       *)
(***************************************************************************)
PairNull == [kind |-> "null", val |-> <<>>]
PairNum(n) == [kind |-> "num", val |-> <<n>>]
PairArr(s) == [kind |-> "arr", val |-> s]

Token(t, s, e, lem, sep, pw) ==
  [text |-> t, start |-> s, end |-> e, lemma |-> lem, is_separable |-> sep,
   paired_with |-> pw]

Sentence1 == <<"a","b"," ","c","d","e"," ","a","b",".">>
Sentence2 == <<"z","z",".">>
Sentence3 == <<"a","b"," ","z","z",".">>

\* "Ich stehe um 7 Uhr auf."
SentenceAuf ==
  <<"I","c","h"," ","s","t","e","h","e"," ","u","m"," ","7"," ",
    "U","h","r"," ","a","u","f",".">>

\* the tokens Ich, stehe and auf of SentenceAuf, auf at [aufStart, aufStart+3)
TokensAuf(aufStart) ==
  << Token(<<"I","c","h">>, 0, 3, "ich", FALSE, PairNull),
     Token(<<"s","t","e","h","e">>, 4, 9, "aufstehen", TRUE, PairNum(aufStart)),
     Token(<<"a","u","f">>, aufStart, aufStart + 3, "aufstehen", TRUE, PairNum(4)) >>

Tokens1(pw1, pw2, pw3) ==
  << Token(<<"a","b">>, 0, 2, IF pw1 = PairNull THEN "ab" ELSE "abcde",
           pw1 # PairNull, pw1),
     Token(<<"c","d","e">>, 3, 6, IF pw2 = PairNull THEN "cde" ELSE "abcde",
           pw2 # PairNull, pw2),
     Token(<<"a","b">>, 7, 9, "ab", FALSE, pw3) >>

AnalysisIds == {"null", "empty", "none", "arr", "num", "chain", "multi", "zz"}

\* the response object: isNull models a failed analysis (null)
Analysis(id) ==
  CASE id = "null"  -> [isNull |-> TRUE, tokens |-> <<>>]
    [] id = "empty" -> [isNull |-> FALSE, tokens |-> <<>>]
    [] id = "none"  -> [isNull |-> FALSE,
                        tokens |-> Tokens1(PairNull, PairNull, PairNull)]
    [] id = "arr"   -> [isNull |-> FALSE,
                        tokens |-> Tokens1(PairArr(<<3>>), PairArr(<<0>>), PairNull)]
    [] id = "num"   -> [isNull |-> FALSE,
                        tokens |-> Tokens1(PairNum(3), PairNum(0), PairNull)]
    [] id = "chain" -> [isNull |-> FALSE,
                        tokens |-> Tokens1(PairArr(<<3>>), PairArr(<<7>>), PairArr(<<>>))]
    [] id = "multi" -> [isNull |-> FALSE,
                        tokens |-> Tokens1(PairNull, PairArr(<<0, 5, 7, 0>>), PairNull)]
    [] id = "zz"    -> [isNull |-> FALSE,
                        tokens |-> << Token(<<"z","z">>, 0, 2, "zz", FALSE, PairNull) >>]
    [] id = "abzz"  -> [isNull |-> FALSE,
                        tokens |-> << Token(<<"a","b">>, 0, 2, "ab", FALSE, PairNull),
                                      Token(<<"z","z">>, 3, 5, "zz", FALSE, PairNull) >>]
    [] id = "aufstehen"   -> [isNull |-> FALSE, tokens |-> TokensAuf(21)]
    [] id = "aufstehen19" -> [isNull |-> FALSE, tokens |-> TokensAuf(19)]

\* the originalText passed along with an analysis
SentenceOf(id) ==
  IF id \in {"zz", "empty"} THEN Sentence2
  ELSE IF id \in {"aufstehen", "aufstehen19"} THEN SentenceAuf
  ELSE IF id = "abzz" THEN Sentence3
  ELSE Sentence1

Words == { <<"A","b">>, <<"c","d","e">>, <<"z","z">>, <<"q">> }

(***************************************************************************)
(* Highlighter.findTokensToHighlight.  Tokens are objects: the result is   *)
(* the sequence of their indices in the token array.                       *)
(***************************************************************************)
\* Array.prototype.find over a set of matching indices (0: undefined)
First(hits) ==
  IF hits = {} THEN 0 ELSE CHOOSE i \in hits : \A j \in hits : i <= j

\* tokens.find(t => t.text.toLowerCase() === targetWord.toLowerCase())
FindByText(tokens, targetWord) ==
  First({i \in 1..Len(tokens) :
           toLowerCase(tokens[i].text) = toLowerCase(targetWord)})

\* tokens.find(t => t.start === pos)
FindByStart(tokens, pos) ==
  First({i \in 1..Len(tokens) : tokens[i].start = pos})

\* JavaScript truthiness of token.paired_with
Truthy(pw) == pw.kind = "arr" \/ (pw.kind = "num" /\ pw.val[1] # 0)

RECURSIVE AddPaired(_, _, _)
AddPaired(tokens, pairedPositions, result) ==
  IF pairedPositions = <<>> THEN result
  ELSE LET pos == Head(pairedPositions)
           pairedToken == FindByStart(tokens, pos)
       IN AddPaired(tokens, Tail(pairedPositions),
                    IF pairedToken # 0 /\ pairedToken \notin SeqToSet(result)
                    THEN Append(result, pairedToken)
                    ELSE result)

\* mutant: a miss falls back to the first token
findTokensToHighlightFallback(tokens, targetWord) ==
  LET found == FindByText(tokens, targetWord)
      targetToken == IF found = 0 /\ Len(tokens) > 0 THEN 1 ELSE found
  IN IF targetToken = 0 THEN <<>>
     ELSE IF Truthy(tokens[targetToken].paired_with)
          THEN AddPaired(tokens, tokens[targetToken].paired_with.val, <<targetToken>>)
          ELSE <<targetToken>>

\* mutant: the last matching token is the target
findTokensToHighlightLastMatch(tokens, targetWord) ==
  LET hits == {i \in 1..Len(tokens) :
                 toLowerCase(tokens[i].text) = toLowerCase(targetWord)}
      targetToken == IF hits = {} THEN 0
                     ELSE CHOOSE i \in hits : \A j \in hits : j <= i
  IN IF targetToken = 0 THEN <<>>
     ELSE IF Truthy(tokens[targetToken].paired_with)
          THEN AddPaired(tokens, tokens[targetToken].paired_with.val, <<targetToken>>)
          ELSE <<targetToken>>

\* mutant: the paired tokens' own paired_with are followed too
findTokensToHighlightTransitive(tokens, targetWord) ==
  LET targetToken == FindByText(tokens, targetWord)
      level1 == IF Truthy(tokens[targetToken].paired_with)
                THEN AddPaired(tokens, tokens[targetToken].paired_with.val,
                               <<targetToken>>)
                ELSE <<targetToken>>
  IN IF targetToken = 0 THEN <<>>
     ELSE AddPaired(tokens,
                    Concat([i \in 1..Len(level1) |->
                              tokens[level1[i]].paired_with.val]),
                    level1)

findTokensToHighlight(tokens, targetWord) ==
  LET targetToken == FindByText(tokens, targetWord)
  IN IF targetToken = 0 THEN <<>>
     ELSE IF Truthy(tokens[targetToken].paired_with)
          THEN AddPaired(tokens, tokens[targetToken].paired_with.val, <<targetToken>>)
          ELSE <<targetToken>>

(***************************************************************************)
(* Highlighter.highlightTextNode on text node i of the container: st is    *)
(* [nodes, hl, hung], the container's text nodes, currentHighlights and    *)
(* whether the walk got stuck.  Range.surroundContents on a range inside   *)
(* one text node keeps the part before the range in the original node,     *)
(* always splits it at the range start, and puts the span between the two. *)
(***************************************************************************)
\* mutant: the text behind the range is lost
WrapRangeLosingRest(st, i, start, end, options, gen) ==
  LET textNode == st.nodes[i]
      highlight == NewSpan(gen, MarkerIds(st.nodes) \cup SeqToSet(st.hl))
      text == textNode.text
  IN [st EXCEPT
        !.nodes = SubSeq(st.nodes, 1, i - 1)
                  \o << [textNode EXCEPT !.text = SubSeq(text, 1, start)],
                        [text |-> SubSeq(text, start + 1, end),
                         el |-> textNode.el, mk |-> highlight,
                         data |-> options, anc |-> textNode.anc,
                         raises |-> "none"] >>
                  \o SubSeq(st.nodes, i + 1, Len(st.nodes)),
        !.hl = Append(st.hl, highlight)]

\* the range, the span and the wrap (lines 306-351): surroundContents, or the
\* extractContents approach of the inner catch, which builds the same nodes
WrapRange(st, i, start, end, options, gen) ==
  LET textNode == st.nodes[i]
      highlight == NewSpan(gen, MarkerIds(st.nodes) \cup SeqToSet(st.hl))
      text == textNode.text
  IN [st EXCEPT
        !.nodes = SubSeq(st.nodes, 1, i - 1)
                  \o << [textNode EXCEPT !.text = SubSeq(text, 1, start)],
                        [text |-> SubSeq(text, start + 1, end),
                         el |-> textNode.el, mk |-> highlight,
                         data |-> options,
                         anc |-> IF textNode.mk = NoMarker THEN textNode.anc
                                 ELSE <<textNode.mk>> \o textNode.anc,
                         raises |-> "none"],
                        [textNode EXCEPT !.text = SubSeq(text, end + 1, Len(text)),
                                         !.raises = "none"] >>
                  \o SubSeq(st.nodes, i + 1, Len(st.nodes)),
        !.hl = Append(st.hl, highlight)]

\* mutant: no test of the parent's class
highlightTextNodeRewrapping(st, i, start, end, options, gen) ==
  IF st.nodes[i].raises = "setStart" THEN st
  ELSE WrapRange(st, i, start, end, options, gen)

highlightTextNode(st, i, start, end, options, gen) ==
  LET textNode == st.nodes[i]
  IN IF textNode.mk # NoMarker
     THEN st   \* already highlighted: skip
     ELSE IF textNode.raises = "setStart"
          THEN st   \* the outer catch: logged, nothing wrapped
          ELSE WrapRange(st, i, start, end, options, gen)

(***************************************************************************)
(* Highlighter.highlightRange: the TreeWalker loop.  The walker is live:   *)
(* after a wrap its next node is the text inside the new span, then the    *)
(* split-off remainder.  An empty text node inside the range is wrapped in *)
(* an empty span, which leaves another empty text node as the next node:   *)
(* the loop never ends (hung).                                             *)
(***************************************************************************)
RECURSIVE WalkTextNodes(_, _, _, _, _, _, _)
WalkTextNodes(st, i, currentOffset, start, end, options, gen) ==
  IF i > Len(st.nodes) THEN st
  ELSE LET currentNode == st.nodes[i]
           nodeLength == Len(currentNode.text)
           nodeStart == currentOffset
           nodeEnd == currentOffset + nodeLength
           hit == nodeEnd > start /\ nodeStart < end
           highlightStart == Max(0, start - nodeStart)
           highlightEnd == Min(nodeLength, end - nodeStart)
       IN IF hit /\ nodeLength = 0 /\ currentNode.mk = NoMarker
             /\ currentNode.raises # "setStart"
          THEN [st EXCEPT !.hung = TRUE]
          ELSE LET st1 == IF hit
                          THEN highlightTextNode(st, i, highlightStart,
                                                 highlightEnd, options, gen)
                          ELSE st
               IN IF nodeEnd >= end THEN st1
                  ELSE WalkTextNodes(st1, i + 1, nodeEnd, start, end, options, gen)

highlightRange(st, start, end, options, gen) ==
  WalkTextNodes(st, 1, 0, start, end, options, gen)

(***************************************************************************)
(* Node.normalize on the parent of a removed span: the container itself    *)
(* (scope 0: the whole subtree) or inline element number scope.            *)
(***************************************************************************)
RECURSIVE NormalizeFrom(_, _, _)
NormalizeFrom(nodes, scope, acc) ==
  IF nodes = <<>> THEN acc
  ELSE LET n == Head(nodes)
           inScope == (scope = 0 \/ n.el = scope) /\ n.mk = NoMarker
       IN IF ~inScope THEN NormalizeFrom(Tail(nodes), scope, Append(acc, n))
          ELSE IF n.text = <<>> THEN NormalizeFrom(Tail(nodes), scope, acc)
          ELSE IF acc # <<>> /\ acc[Len(acc)].mk = NoMarker /\ acc[Len(acc)].el = n.el
               THEN NormalizeFrom(Tail(nodes), scope,
                      [acc EXCEPT ![Len(acc)].text = @ \o n.text])
               ELSE NormalizeFrom(Tail(nodes), scope, Append(acc, n))

normalize(nodes, scope) == NormalizeFrom(nodes, scope, <<>>)

\* mutant: the span is removed with its children
RemoveSpansDroppingText(nodes) ==
  normalize(SelectSeq(nodes, LAMBDA n : n.mk = NoMarker), 0)

\* the loop body of clearHighlights / clearAllHighlights on the first span
RECURSIVE RemoveSpans(_)
RemoveSpans(nodes) ==
  LET spans == {i \in 1..Len(nodes) : nodes[i].mk # NoMarker}
  IN IF spans = {} THEN nodes
     ELSE LET i == CHOOSE k \in spans : \A j \in spans : k <= j
              moved == [nodes EXCEPT ![i].mk = NoMarker, ![i].data = NoData]
          IN RemoveSpans(normalize(moved, nodes[i].el))

(***************************************************************************)
(* The Highlighter object's operations on H = [doc, hl, cc, hung].         *)
(***************************************************************************)
\* mutant: the spans are looked up in the whole document
clearHighlightsEverywhere(H, container) ==
  IF container = Null THEN H
  ELSE [H EXCEPT !.doc = [c \in Containers |-> RemoveSpans(H.doc[c])],
                 !.hl = <<>>]

\* mutant: the tracking array is not emptied
clearHighlightsKeepingList(H, container) ==
  IF container = Null THEN H
  ELSE [H EXCEPT !.doc[container] = RemoveSpans(H.doc[container])]

clearHighlights(H, container) ==
  IF container = Null THEN H
  ELSE [H EXCEPT !.doc[container] = RemoveSpans(H.doc[container]),
                 !.hl = <<>>]

\* mutant: only the current container is cleared
clearAllHighlightsOfCurrent(H) ==
  [H EXCEPT !.doc = [c \in Containers |->
                       IF c = H.cc THEN RemoveSpans(H.doc[c]) ELSE H.doc[c]],
            !.hl = <<>>,
            !.cc = Null]

clearAllHighlights(H) ==
  [H EXCEPT !.doc = [c \in Containers |-> RemoveSpans(H.doc[c])],
            !.hl = <<>>,
            !.cc = Null]

RECURSIVE HighlightTokens(_, _, _, _, _)
HighlightTokens(st, tokens, tokensToHighlight, analyzedTextPosition, gen) ==
  IF tokensToHighlight = <<>> \/ st.hung THEN st
  ELSE LET token == tokens[Head(tokensToHighlight)]
           absoluteStart == analyzedTextPosition + token.start
           absoluteEnd == analyzedTextPosition + token.end
       IN HighlightTokens(
            highlightRange(st, absoluteStart, absoluteEnd,
                           [lemma |-> token.lemma, separable |-> token.is_separable],
                           gen),
            tokens, Tail(tokensToHighlight), analyzedTextPosition, gen)

\* applyHighlights from the textContent lookup on: H1 is the state after the
\* clear and the store of currentContainer, checked the test of the lookup
ApplyToCleared(H, H1, container, analysis, originalText, targetWord, checked) ==
  LET gen == NewGeneration(container,
                           AllMarkerIds(H.doc) \cup SeqToSet(H.hl))
      containerText == textContent(H1.doc[container])
      analyzedTextPosition == indexOf(containerText, originalText)
  IN IF checked /\ analyzedTextPosition = -1 THEN H1
     ELSE LET st == HighlightTokens(
                      [nodes |-> H1.doc[container], hl |-> H1.hl, hung |-> FALSE],
                      analysis.tokens,
                      findTokensToHighlight(analysis.tokens, targetWord),
                      analyzedTextPosition, gen)
          IN [H1 EXCEPT !.doc[container] = st.nodes,
                        !.hl = st.hl,
                        !.hung = st.hung]

\* mutant: no clearHighlights before highlighting
applyHighlightsWithoutClear(H, container, analysis, originalText, targetWord) ==
  IF analysis.isNull \/ Len(analysis.tokens) = 0 THEN H
  ELSE ApplyToCleared(H, [H EXCEPT !.cc = container], container, analysis,
                      originalText, targetWord, TRUE)

\* mutant: currentContainer is not stored
applyHighlightsWithoutContainer(H, container, analysis, originalText, targetWord) ==
  IF analysis.isNull \/ Len(analysis.tokens) = 0 THEN H
  ELSE ApplyToCleared(H, clearHighlights(H, container), container, analysis,
                      originalText, targetWord, TRUE)

\* mutant: the result of indexOf is not checked
applyHighlightsUnchecked(H, container, analysis, originalText, targetWord) ==
  IF analysis.isNull \/ Len(analysis.tokens) = 0 THEN H
  ELSE ApplyToCleared(H, [clearHighlights(H, container) EXCEPT !.cc = container],
                      container, analysis, originalText, targetWord, FALSE)

applyHighlights(H, container, analysis, originalText, targetWord) ==
  IF analysis.isNull \/ Len(analysis.tokens) = 0 THEN H
  ELSE ApplyToCleared(H, [clearHighlights(H, container) EXCEPT !.cc = container],
                      container, analysis, originalText, targetWord, TRUE)

(***************************************************************************)
(* The tooltip controller, on T = [tooltips, timer, timers, box].  A       *)
(* geometry g holds what showTooltip measures, in integer pixels: left,    *)
(* top and bottom of the marker's rectangle, width and height of the       *)
(* tooltip, innerWidth and innerHeight of the window.                      *)
(***************************************************************************)
NoBox == [left |-> 0, top |-> 0, width |-> 0, height |-> 0]

Geometry(left, top, bottom, width, height, innerWidth, innerHeight) ==
  [left |-> left, top |-> top, bottom |-> bottom, width |-> width,
   height |-> height, innerWidth |-> innerWidth, innerHeight |-> innerHeight]

\* the marker rectangles, tooltip sizes and window the pointer meets
Geometries ==
  { Geometry(l, tb[1], tb[2], w, h, 40, 40) :
      l \in {0, 35}, tb \in {<<0, 5>>, <<10, 15>>, <<30, 35>>},
      w \in {10, 35}, h \in {10, 30} }

\* the geometry of a hover on the page: a marker at the top left corner
GeometryOf(m) == Geometry(0, 0, 5, 10, 10, 40, 40)

\* showTooltip from "Position tooltip" on: the style.left and style.top set
\* first and the two adjustments, both decided on the rectangle measured
\* once after the insertion
positionTooltip(g) ==
  LET left0 == g.left
      top0 == g.bottom + 5
      tooltipRight == left0 + g.width
      tooltipBottom == top0 + g.height
  IN [left |-> IF tooltipRight > g.innerWidth
               THEN g.innerWidth - g.width - 10 ELSE left0,
      top |-> IF tooltipBottom > g.innerHeight
              THEN g.top - g.height - 5 ELSE top0,
      width |-> g.width,
      height |-> g.height]

\* mutant: nothing is removed
hideTooltipImmediatelyNot(T) == T

hideTooltipImmediately(T) ==
  [T EXCEPT !.tooltips = IF T.tooltips > 0 THEN T.tooltips - 1 ELSE 0,
            !.box = IF T.tooltips > 1 THEN T.box ELSE NoBox]

\* mutant: the existing tooltip is not removed
showTooltipKeepingOld(T, g) ==
  LET T1 == IF T.timer # 0
            THEN [T EXCEPT !.timers = T.timers \ {T.timer}, !.timer = 0]
            ELSE T
  IN [T1 EXCEPT !.tooltips = T1.tooltips + 1, !.box = positionTooltip(g)]

\* mutant: the pending hide is not cancelled
showTooltipKeepingTimer(T, g) ==
  LET T2 == hideTooltipImmediately(T)
  IN [T2 EXCEPT !.tooltips = T2.tooltips + 1, !.box = positionTooltip(g)]

showTooltip(T, g) ==
  LET T1 == IF T.timer # 0
            THEN [T EXCEPT !.timers = T.timers \ {T.timer}, !.timer = 0]
            ELSE T
      T2 == hideTooltipImmediately(T1)
  IN [T2 EXCEPT !.tooltips = T2.tooltips + 1, !.box = positionTooltip(g)]

\* mutant: a pending hide is left as it is
hideTooltipKeepingPending(T) ==
  IF T.timer # 0 THEN T
  ELSE LET t == NewId(T.timers)
       IN [T EXCEPT !.timers = T.timers \cup {t}, !.timer = t]

hideTooltip(T) ==
  LET T1 == IF T.timer # 0
            THEN [T EXCEPT !.timers = T.timers \ {T.timer}]
            ELSE T
      t == NewId(T.timers \cup {T.timer})
  IN [T1 EXCEPT !.timers = T1.timers \cup {t}, !.timer = t]

\* the setTimeout callback of hideTooltip
hideTimerCallback(T, t) ==
  [hideTooltipImmediately(T) EXCEPT !.timer = 0, !.timers = T.timers \ {t}]

(***************************************************************************)
(* State and steps.                                                        *)
(***************************************************************************)
HState == [doc |-> doc, hl |-> currentHighlights, cc |-> currentContainer,
           hung |-> hung]

TState == [tooltips |-> tooltips, timer |-> hideTooltipTimer, timers |-> timers,
           box |-> tooltipBox]

\* a span that leaves the document is no longer under the pointer
SetH(H) ==
  /\ doc' = H.doc
  /\ currentHighlights' = H.hl
  /\ currentContainer' = H.cc
  /\ hung' = H.hung
  /\ hovered' = IF hovered \in AllMarkerIds(H.doc) THEN hovered ELSE NoMarker

SetT(T) ==
  /\ tooltips' = T.tooltips
  /\ hideTooltipTimer' = T.timer
  /\ timers' = T.timers
  /\ tooltipBox' = T.box

\* lastAnalyzedWord, lastAnalyzedSentence and lastAnalysisResult are null
NoAnalyzed == [word |-> <<>>, sentence |-> <<>>, result |-> "null"]

\* sendToAnki was not called.  Else sent is TRUE and word, token, sentence
\* are its arguments; an: the analysis the token is from; clicked: the
\* sentence the click was in.
NoAnki ==
  [sent |-> FALSE, word |-> <<>>, clicked |-> <<>>, an |-> "null",
   token |-> Token(<<>>, 0, 0, "", FALSE, PairNull), sentence |-> <<>>]

\* the popup's inputs that handleSaveSettings reads, all empty
NoForm ==
  [environment |-> "", backendUrl |-> <<>>, analyzeModifier |-> "",
   ankiModifier1 |-> "", ankiModifier2 |-> "", ankiUrl |-> <<>>,
   ankiDeck |-> <<>>, ankiNoteType |-> <<>>]

\* the record of the last operation: its name, the container and inputs it
\* was called with; afterApply: it directly follows an applyHighlights on the
\* same container; had: what it removes was there before it (markers in the
\* container or the document, a tooltip); text0: the container's textContent
\* before the operation (for a clear that follows an applyHighlights: before
\* that applyHighlights)
\* For the tooltip operations, timed: a hide timer was pending before the
\* operation; geo: the geometry showTooltip measured.  For a highlight by the
\* content script, later: the container, word and sentence of a later click
\* whose handler had already highlighted (<<>>: none); sentence: the sentence
\* of the click; hit: it was found in sentenceCache.  For the popup's toggle
\* and its message, enabled: the value.  For the hotkey tests, event: the
\* modifier keys held; modifiers: the list tested; returned: what checkHotkey
\* returned; branch: the handler handleClick chose.  For applyHighlights,
\* faulty: the positions of the container's text in text nodes on which
\* setStart throws.  For extractSentence, text0: the text; position: the
\* position; sentence: what it returned.  For handleSaveSettings, form: the
\* values of the popup's inputs; saved: it wrote them.  For a settingsUpdated
\* message, runs: how many times init() ran for it.  For a click with the
\* Anki hotkey and for the response its handler waited for, anki: what
\* handleSendToAnki passed to sendToAnki.
Op(op, c, an, word, afterApply, had, text0) ==
  [op |-> op, c |-> c, an |-> an, word |-> word, afterApply |-> afterApply,
   had |-> had, text0 |-> text0, timed |-> FALSE, geo |-> GeometryOf(NoMarker),
   later |-> <<>>, sentence |-> <<>>, hit |-> FALSE, enabled |-> FALSE,
   event |-> {}, modifiers |-> <<>>, returned |-> FALSE, branch |-> "none",
   faulty |-> {}, position |-> 0, form |-> NoForm, saved |-> FALSE, runs |-> 0,
   anki |-> NoAnki]

TooltipOp(op, c, g) ==
  [Op(op, c, "null", <<>>, FALSE, tooltips > 0, <<>>)
     EXCEPT !.timed = hideTooltipTimer # 0, !.geo = g]

\* updateBadge's text for a value of the flag
BadgeText(enabled) == IF enabled THEN "ON" ELSE "OFF"

\* the module-level values of the three modifiers
DefaultHotkeys ==
  [analyzeModifier |-> "shiftKey", ankiModifier1 |-> "ctrlKey",
   ankiModifier2 |-> "shiftKey"]

\* chrome.storage.sync's settings from which init() loads the modifiers keys:
\* nothing stored for the defaults, else what the popup has saved (a key that
\* was never stored reads as undefined, which init() treats like '')
StoredSettings(keys) ==
  IF keys = DefaultHotkeys THEN NoForm
  ELSE [environment |-> "custom", backendUrl |-> <<"a", ":">>,
        analyzeModifier |-> keys.analyzeModifier,
        ankiModifier1 |-> keys.ankiModifier1,
        ankiModifier2 |-> keys.ankiModifier2, ankiUrl |-> <<"a", ":">>,
        ankiDeck |-> <<"a">>, ankiNoteType |-> <<"a">>]

\* the page d once the scripts are loaded and init() has run with the stored
\* flag enabled and the stored modifiers keys; cache: the sentences analysed
\* so far
InitWith(d, cache, enabled, keys) ==
  /\ doc = d
  /\ currentHighlights = <<>>
  /\ currentContainer = Null
  /\ hideTooltipTimer = 0
  /\ timers = {}
  /\ tooltips = 0
  /\ tooltipBox = NoBox
  /\ hovered = NoMarker
  /\ hung = FALSE
  /\ isExtensionEnabled = enabled
  /\ justHighlighted = FALSE
  /\ pending = <<>>
  /\ sentenceCache = cache
  /\ hotkeys = keys
  /\ listeners = IF enabled THEN 1 ELSE 0
  /\ storage = [enabled |-> enabled, settings |-> StoredSettings(keys)]
  /\ storageEvents = <<>>
  /\ badge = BadgeText(enabled)
  /\ messages = <<>>
  /\ settingsUpdated = 0
  /\ lastAnalyzed = NoAnalyzed
  /\ last = Op("init", Null, "null", <<>>, FALSE, FALSE, <<>>)

\* a page loaded after installation, nothing analysed yet
Init == InitWith(InitDoc, <<>>, TRUE, DefaultHotkeys)

\* the character positions of the flattened text that are in a text node on
\* which Range.setStart throws
FaultyPositions(nodes) ==
  {k \in 0..(Len(textContent(nodes)) - 1) :
     \E i \in 1..Len(nodes) :
        LET nodeStart == Len(textContent(SubSeq(nodes, 1, i - 1)))
        IN /\ nodes[i].raises = "setStart"
           /\ nodeStart <= k /\ k < nodeStart + Len(nodes[i].text)}

\* Highlighter.applyHighlights(container, analysis, originalText, targetWord)
ApplyHighlights(c, an, word) ==
  /\ ~hung
  /\ UNCHANGED extvars
  /\ SetH(applyHighlights(HState, c, Analysis(an), SentenceOf(an), word))
  /\ last' = [Op("apply", c, an, word, last.op = "apply" /\ last.c = c,
                 MarkerIds(doc[c]) # {}, textContent(doc[c]))
                EXCEPT !.faulty = FaultyPositions(doc[c])]
  /\ UNCHANGED <<hideTooltipTimer, timers, tooltips, tooltipBox, isExtensionEnabled,
                 justHighlighted, pending, sentenceCache>>

\* Highlighter.clearHighlights(container)
ClearHighlights(c) ==
  /\ ~hung
  /\ UNCHANGED extvars
  /\ SetH(clearHighlights(HState, c))
  /\ last' = IF c = Null THEN Op("clear", c, "null", <<>>, FALSE, FALSE, <<>>)
             ELSE IF last.op = "apply" /\ last.c = c
             THEN Op("clear", c, last.an, last.word, TRUE,
                     MarkerIds(doc[c]) # {}, last.text0)
             ELSE Op("clear", c, "null", <<>>, FALSE,
                     MarkerIds(doc[c]) # {}, textContent(doc[c]))
  /\ UNCHANGED <<hideTooltipTimer, timers, tooltips, tooltipBox, isExtensionEnabled,
                 justHighlighted, pending, sentenceCache>>

\* Highlighter.clearAllHighlights()
ClearAllHighlights ==
  /\ ~hung
  /\ UNCHANGED extvars
  /\ SetH(clearAllHighlights(HState))
  /\ last' = Op("clearAll", Null, "null", <<>>, FALSE, AllMarkerIds(doc) # {}, <<>>)
  /\ UNCHANGED <<hideTooltipTimer, timers, tooltips, tooltipBox, isExtensionEnabled,
                 justHighlighted, pending, sentenceCache>>

\* Highlighter.showTooltip(event) with event.target the marker m, measuring
\* the geometry g; the pointer is over h afterwards
ShowTooltip(m, g, h) ==
  /\ ~hung
  /\ UNCHANGED extvars
  /\ SetT(showTooltip(TState, g))
  /\ hovered' = h
  /\ last' = TooltipOp("enter", m[1], g)
  /\ UNCHANGED <<doc, currentHighlights, currentContainer, hung,
                 isExtensionEnabled, justHighlighted, pending, sentenceCache>>

\* mouseenter on marker m: showTooltip
MouseEnter(m) ==
  /\ hovered # m
  /\ ShowTooltip(m, GeometryOf(m), m)

\* mutant: the second mouseleave listener is missing
MouseLeaveTooltipOnly ==
  /\ ~hung
  /\ UNCHANGED extvars
  /\ hovered \in AllMarkerIds(doc)
  /\ SetT(hideTooltip(TState))
  /\ hovered' = NoMarker
  /\ last' = TooltipOp("leave", hovered[1], GeometryOf(NoMarker))
  /\ UNCHANGED <<doc, currentHighlights, currentContainer, hung,
                 isExtensionEnabled, justHighlighted, pending, sentenceCache>>

\* mouseleave on the hovered marker: hideTooltip, then clearHighlights bound
\* to the container that was current when the marker was created
MouseLeave ==
  /\ ~hung
  /\ UNCHANGED extvars
  /\ hovered \in AllMarkerIds(doc)
  /\ SetT(hideTooltip(TState))
  /\ SetH(clearHighlights(HState, hovered[1]))
  /\ last' = TooltipOp("leave", hovered[1], GeometryOf(NoMarker))
  /\ UNCHANGED <<isExtensionEnabled, justHighlighted, pending, sentenceCache>>

\* Highlighter.hideTooltip() called directly
HideTooltip ==
  /\ ~hung
  /\ UNCHANGED extvars
  /\ SetT(hideTooltip(TState))
  /\ last' = TooltipOp("hide", Null, GeometryOf(NoMarker))
  /\ UNCHANGED <<doc, currentHighlights, currentContainer, hovered, hung,
                 isExtensionEnabled, justHighlighted, pending, sentenceCache>>

\* Highlighter.hideTooltipImmediately() called directly
HideTooltipImmediately ==
  /\ ~hung
  /\ UNCHANGED extvars
  /\ SetT(hideTooltipImmediately(TState))
  /\ last' = TooltipOp("hideNow", Null, GeometryOf(NoMarker))
  /\ UNCHANGED <<doc, currentHighlights, currentContainer, hovered, hung,
                 isExtensionEnabled, justHighlighted, pending, sentenceCache>>

\* the hide timer expires
HideTimerFires(t) ==
  /\ ~hung
  /\ UNCHANGED extvars
  /\ SetT(hideTimerCallback(TState, t))
  /\ last' = TooltipOp("timer", Null, GeometryOf(NoMarker))
  /\ UNCHANGED <<doc, currentHighlights, currentContainer, hovered, hung,
                 isExtensionEnabled, justHighlighted, pending, sentenceCache>>

(***************************************************************************)
(* Spec: the Highlighter object called directly, in any order.             *)
(***************************************************************************)
Next ==
  \/ \E c \in Containers, an \in AnalysisIds, word \in Words :
        ApplyHighlights(c, an, word)
  \/ \E c \in Containers \cup {Null} : ClearHighlights(c)
  \/ ClearAllHighlights

Spec == Init /\ [][Next]_vars

(***************************************************************************)
(* SpecHover: the same with the pointer moving over the markers and the    *)
(* hide timer, on the analyses of the two sentences.                       *)
(***************************************************************************)
HoverAnalysisIds == {"arr", "zz"}

HoverWords == { <<"A","b">>, <<"z","z">> }

NextHover ==
  \/ \E c \in Containers, an \in HoverAnalysisIds, word \in HoverWords :
        ApplyHighlights(c, an, word)
  \/ \E c \in Containers : ClearHighlights(c)
  \/ ClearAllHighlights
  \/ \E m \in AllMarkerIds(doc) : MouseEnter(m)
  \/ MouseLeave
  \/ \E t \in timers : HideTimerFires(t)

SpecHover == Init /\ [][NextHover]_vars

\* the hide timer expires unless the page's script hangs
SpecHoverFair ==
  SpecHover /\ WF_vars(\E t \in timers : HideTimerFires(t))

(***************************************************************************)
(* SpecTooltip: the tooltip operations of the Highlighter object called    *)
(* directly, on the markers of one highlight, for every geometry.          *)
(***************************************************************************)
NextTooltip ==
  \/ ApplyHighlights("p1", "arr", <<"A","b">>)
  \/ ClearAllHighlights
  \/ \E m \in AllMarkerIds(doc), g \in Geometries : ShowTooltip(m, g, hovered)
  \/ HideTooltip
  \/ HideTooltipImmediately
  \/ \E t \in timers : HideTimerFires(t)

SpecTooltip == Init /\ [][NextTooltip]_vars

(***************************************************************************)
(* The content script (content.js).                                        *)
(***************************************************************************)
Letters == {"a", "b", "c", "d", "e", "q", "z", "A", "B", "C"}

SentenceEnd == {".", "!", "?"}

CACHE_MAX_SIZE == 100

\* String.prototype.trim
RECURSIVE trim(_)
trim(s) ==
  IF s = <<>> THEN s
  ELSE IF Head(s) = " " THEN trim(Tail(s))
  ELSE IF s[Len(s)] = " " THEN trim(SubSeq(s, 1, Len(s) - 1))
  ELSE s

\* getWordAtPosition: the first run of letters of the text node that holds
\* the caret offset (start <= offset <= end), or <<>> for null
getWordAtPosition(text, offset) ==
  LET isRun(a, b) == /\ a < b
                     /\ \A k \in (a + 1)..b : text[k] \in Letters
                     /\ (a = 0 \/ text[a] \notin Letters)
                     /\ (b = Len(text) \/ text[b + 1] \notin Letters)
      runs == {r \in (0..Len(text)) \X (0..Len(text)) :
                 isRun(r[1], r[2]) /\ r[1] <= offset /\ offset <= r[2]}
  IN IF runs = {} THEN <<>>
     ELSE LET r == CHOOSE x \in runs : \A y \in runs : x[1] <= y[1]
          IN SubSeq(text, r[1] + 1, r[2])

\* mutant: the search for the end starts behind the position
extractSentenceBehind(text, position) ==
  LET before == {i \in 0..(position - 1) : text[i + 1] \in SentenceEnd}
      after == {i \in (position + 1)..(Len(text) - 1) : text[i + 1] \in SentenceEnd}
      sentenceStart ==
        IF before = {} THEN 0
        ELSE (CHOOSE i \in before : \A j \in before : j <= i) + 1
      sentenceEnd ==
        IF after = {} THEN Len(text)
        ELSE (CHOOSE i \in after : \A j \in after : i <= j) + 1
  IN trim(SubSeq(text, sentenceStart + 1, sentenceEnd))

\* extractSentence(text, position) of content.js
extractSentence(text, position) ==
  LET before == {i \in 0..(position - 1) : text[i + 1] \in SentenceEnd}
      after == {i \in position..(Len(text) - 1) : text[i + 1] \in SentenceEnd}
      sentenceStart ==
        IF before = {} THEN 0
        ELSE (CHOOSE i \in before : \A j \in before : j <= i) + 1
      sentenceEnd ==
        IF after = {} THEN Len(text)
        ELSE (CHOOSE i \in after : \A j \in after : i <= j) + 1
  IN trim(SubSeq(text, sentenceStart + 1, sentenceEnd))

\* getFullSentence for a caret at character position of container text
getFullSentence(fullText, position) ==
  LET sentence == extractSentence(fullText, position)
  IN IF sentence = <<>> THEN fullText ELSE sentence

\* document.caretRangeFromPoint: the text node (index) that holds character
\* number position of the container, and the caret offset in it
CaretNode(nodes, position) ==
  CHOOSE i \in 1..Len(nodes) :
    LET nodeStart == Len(textContent(SubSeq(nodes, 1, i - 1)))
    IN nodeStart <= position /\ position < nodeStart + Len(nodes[i].text)

CaretOffset(nodes, position) ==
  position - Len(textContent(SubSeq(nodes, 1, CaretNode(nodes, position) - 1)))

\* sentenceCache (a Map in insertion order): sequence of [key, value]
\* mutant: the lookup finds nothing
cacheGetNothing(cache, sentence) == "null"

cacheGet(cache, sentence) ==
  LET hits == {i \in 1..Len(cache) : cache[i].key = sentence}
  IN IF hits = {} THEN "null" ELSE cache[CHOOSE i \in hits : TRUE].value

\* mutant: nothing is deleted before the set
addToCacheUnbounded(cache, sentence, analysis) ==
  LET hits == {i \in 1..Len(cache) : cache[i].key = sentence}
  IN IF hits = {}
     THEN Append(cache, [key |-> sentence, value |-> analysis])
     ELSE [cache EXCEPT ![CHOOSE i \in hits : TRUE].value = analysis]

addToCache(cache, sentence, analysis) ==
  LET evicted == IF Len(cache) >= CACHE_MAX_SIZE THEN Tail(cache) ELSE cache
      hits == {i \in 1..Len(evicted) : evicted[i].key = sentence}
  IN IF hits = {}
     THEN Append(evicted, [key |-> sentence, value |-> analysis])
     ELSE [evicted EXCEPT ![CHOOSE i \in hits : TRUE].value = analysis]

\* handleAnalyzeWord from "Clear previous highlights" on: clearAllHighlights,
\* getTextContainer, applyHighlights
HighlightAnalysis(H, c, an, sentence, word) ==
  applyHighlights(clearAllHighlights(H), c, Analysis(an), sentence, word)

\* what the analysis service answers for a sentence (null: the request failed)
Responses(sentence) ==
  {"null"} \cup (IF sentence = Sentence1 THEN {"arr"}
                 ELSE IF sentence = Sentence2 THEN {"zz"}
                 ELSE IF sentence = Sentence3 THEN {"abzz"}
                 ELSE {})

\* the characters the user clicks on with the analyze hotkey
ClickPoints ==
  { <<"p1", 0>>, <<"p1", 3>>, <<"p1", 4>>, <<"p1", 8>>, <<"p1", 11>>,
    <<"p2", 0>>, <<"p2", 3>> }

MaxPending == 2

\* the requests in flight once the handler of a click on word of sentence in
\* container c has highlighted: those in seq were started by earlier clicks
Superseded(seq, c, word, sentence) ==
  [j \in 1..Len(seq) |-> [seq[j] EXCEPT !.later = <<c, word, sentence>>]]

\* a click with the analyze hotkey on character position of container c
\* (not inside a marker): handleClick, handleAnalyzeWord up to the await or,
\* when the sentence is cached, to its end.  stopPropagation keeps this click
\* from handleAutoClear.
ClickAnalyze(c, position) ==
  /\ ~hung
  /\ listeners > 0
  /\ UNCHANGED popupvars
  /\ isExtensionEnabled
  /\ position < Len(textContent(doc[c]))
  /\ LET node == doc[c][CaretNode(doc[c], position)]
         word == getWordAtPosition(node.text, CaretOffset(doc[c], position))
         sentence == getFullSentence(textContent(doc[c]), position)
         analysis == cacheGet(sentenceCache, sentence)
     IN /\ node.mk = NoMarker
        /\ IF word = <<>>
           THEN /\ UNCHANGED <<doc, currentHighlights, currentContainer, hung,
                               hovered, justHighlighted, pending, lastAnalyzed>>
                /\ last' = Op("analyze", c, "null", word, FALSE, FALSE, <<>>)
           ELSE IF analysis = "null"
           THEN /\ Len(pending) < MaxPending
                /\ pending' = Append(pending,
                                [c |-> c, word |-> word, sentence |-> sentence,
                                 later |-> <<>>, anki |-> FALSE])
                /\ UNCHANGED <<doc, currentHighlights, currentContainer, hung,
                               hovered, justHighlighted, lastAnalyzed>>
                /\ last' = Op("analyze", c, "null", word, FALSE, FALSE, <<>>)
           ELSE /\ lastAnalyzed' = [word |-> word, sentence |-> sentence,
                                    result |-> analysis]
                /\ SetH(HighlightAnalysis(HState, c, analysis, sentence, word))
                /\ justHighlighted' = (hung' => justHighlighted)
                /\ last' = [Op("highlight", c, analysis, word, FALSE,
                               AllMarkerIds(doc) # {}, textContent(doc[c]))
                              EXCEPT !.sentence = sentence, !.hit = TRUE]
                /\ pending' = Superseded(pending, c, word, sentence)
  /\ UNCHANGED <<hideTooltipTimer, timers, tooltips, tooltipBox, isExtensionEnabled,
                 sentenceCache>>

\* handleSendToAnki from "if (!lastAnalysisResult)" on, for a click on word
\* in the sentence clicked while the three variables are la: what it passes
\* to sendToAnki (tokens.find gives the first token with the word's text)
AnkiNote(word, clicked, la) ==
  IF la.result = "null" THEN NoAnki
  ELSE LET tokens == Analysis(la.result).tokens
           found == {k \in 1..Len(tokens) :
                       toLowerCase(tokens[k].text) = toLowerCase(word)}
       IN IF found = {} THEN NoAnki
          ELSE [sent |-> TRUE, word |-> word, clicked |-> clicked,
                an |-> la.result,
                token |-> tokens[CHOOSE k \in found : \A j \in found : k <= j],
                sentence |-> la.sentence]

\* the analysis request i completes with response an: the rest of
\* handleAnalyzeWord and, when handleSendToAnki had called it, the rest of
\* handleSendToAnki
AnalyzeResponse(i, an) ==
  /\ ~hung
  /\ UNCHANGED popupvars
  /\ i \in 1..Len(pending)
  /\ an \in Responses(pending[i].sentence)
  /\ IF an = "null"
     THEN /\ pending' = SubSeq(pending, 1, i - 1)
                         \o SubSeq(pending, i + 1, Len(pending))
          /\ UNCHANGED <<doc, currentHighlights, currentContainer, hung,
                         hovered, justHighlighted, sentenceCache, lastAnalyzed>>
          /\ last' = [Op("failed", pending[i].c, an, pending[i].word, FALSE, FALSE, <<>>)
                        EXCEPT !.anki = IF pending[i].anki
                                        THEN AnkiNote(pending[i].word,
                                                      pending[i].sentence,
                                                      lastAnalyzed)
                                        ELSE NoAnki]
     ELSE /\ sentenceCache' = addToCache(sentenceCache, pending[i].sentence, an)
          /\ lastAnalyzed' = [word |-> pending[i].word,
                              sentence |-> pending[i].sentence, result |-> an]
          /\ SetH(HighlightAnalysis(HState, pending[i].c, an,
                                    pending[i].sentence, pending[i].word))
          /\ justHighlighted' = (hung' => justHighlighted)
          /\ pending' = Superseded(SubSeq(pending, 1, i - 1), pending[i].c,
                                    pending[i].word, pending[i].sentence)
                         \o SubSeq(pending, i + 1, Len(pending))
          /\ last' = [Op("highlight", pending[i].c, an, pending[i].word, FALSE,
                         AllMarkerIds(doc) # {}, textContent(doc[pending[i].c]))
                        EXCEPT !.later = pending[i].later,
                               !.sentence = pending[i].sentence,
                               !.anki = IF pending[i].anki /\ ~hung'
                                        THEN AnkiNote(pending[i].word,
                                                      pending[i].sentence,
                                                      lastAnalyzed')
                                        ELSE NoAnki]
  /\ UNCHANGED <<hideTooltipTimer, timers, tooltips, tooltipBox, isExtensionEnabled>>

\* a click with the Anki hotkey on character position of container c:
\* handleClick and handleSendToAnki, up to the await of the analysis request
\* when handleAnalyzeWord sends one, else to its end.  A click that needs an
\* analysis is not inside a marker.  stopPropagation keeps this click from
\* handleAutoClear.
ClickAnki(c, position) ==
  /\ ~hung
  /\ listeners > 0
  /\ UNCHANGED popupvars
  /\ isExtensionEnabled
  /\ position < Len(textContent(doc[c]))
  /\ LET node == doc[c][CaretNode(doc[c], position)]
         word == getWordAtPosition(node.text, CaretOffset(doc[c], position))
         sentence == getFullSentence(textContent(doc[c]), position)
         analysis == cacheGet(sentenceCache, sentence)
     IN IF word = <<>>
        THEN /\ UNCHANGED <<doc, currentHighlights, currentContainer, hung,
                            hovered, justHighlighted, pending, lastAnalyzed>>
             /\ last' = Op("anki", c, "null", word, FALSE, FALSE, <<>>)
        ELSE IF lastAnalyzed.word = word
        THEN /\ UNCHANGED <<doc, currentHighlights, currentContainer, hung,
                            hovered, justHighlighted, pending, lastAnalyzed>>
             /\ last' = [Op("anki", c, lastAnalyzed.result, word, FALSE, FALSE, <<>>)
                           EXCEPT !.sentence = sentence,
                                  !.anki = AnkiNote(word, sentence, lastAnalyzed)]
        ELSE /\ node.mk = NoMarker
             /\ IF analysis = "null"
                THEN /\ Len(pending) < MaxPending
                     /\ pending' = Append(pending,
                                     [c |-> c, word |-> word, sentence |-> sentence,
                                      later |-> <<>>, anki |-> TRUE])
                     /\ UNCHANGED <<doc, currentHighlights, currentContainer, hung,
                                    hovered, justHighlighted, lastAnalyzed>>
                     /\ last' = [Op("anki", c, "null", word, FALSE, FALSE, <<>>)
                                   EXCEPT !.sentence = sentence]
                ELSE /\ lastAnalyzed' = [word |-> word, sentence |-> sentence,
                                         result |-> analysis]
                     /\ SetH(HighlightAnalysis(HState, c, analysis, sentence, word))
                     /\ justHighlighted' = (hung' => justHighlighted)
                     /\ pending' = Superseded(pending, c, word, sentence)
                     /\ last' = [Op("highlight", c, analysis, word, FALSE,
                                    AllMarkerIds(doc) # {}, textContent(doc[c]))
                                   EXCEPT !.sentence = sentence, !.hit = TRUE,
                                          !.anki = IF hung' THEN NoAnki
                                                   ELSE AnkiNote(word, sentence,
                                                                 lastAnalyzed')]
  /\ UNCHANGED <<hideTooltipTimer, timers, tooltips, tooltipBox, isExtensionEnabled,
                 sentenceCache>>

\* a click without the analyze or Anki hotkey: handleClick does nothing and
\* handleAutoClear runs.  inMarker: the target is inside a marker.
ClickPlain(inMarker) ==
  /\ ~hung
  /\ listeners > 0
  /\ UNCHANGED extvars
  /\ inMarker => AllMarkerIds(doc) # {}
  /\ IF ~isExtensionEnabled
     THEN UNCHANGED <<doc, currentHighlights, currentContainer, hung, hovered,
                      justHighlighted>>
     ELSE IF justHighlighted
     THEN /\ justHighlighted' = FALSE
          /\ UNCHANGED <<doc, currentHighlights, currentContainer, hung, hovered>>
     ELSE IF inMarker
     THEN UNCHANGED <<doc, currentHighlights, currentContainer, hung, hovered,
                      justHighlighted>>
     ELSE /\ SetH(clearAllHighlights(HState))
          /\ UNCHANGED justHighlighted
  /\ last' = Op("click", IF inMarker THEN "marker" ELSE Null, "null", <<>>,
                FALSE, AllMarkerIds(doc) # {}, <<>>)
  /\ UNCHANGED <<hideTooltipTimer, timers, tooltips, tooltipBox, isExtensionEnabled,
                 pending, sentenceCache>>

\* the onMessage listener on a toggleHighlighting message
OnToggleHighlighting(enabled) ==
  /\ ~hung
  /\ listeners > 0
  /\ isExtensionEnabled' = enabled
  /\ IF ~enabled
     THEN SetH(clearAllHighlights(HState))
     ELSE UNCHANGED <<doc, currentHighlights, currentContainer, hung, hovered>>
  /\ last' = [Op("toggle", Null, "null", <<>>, FALSE, AllMarkerIds(doc) # {}, <<>>)
                EXCEPT !.enabled = enabled]
  /\ UNCHANGED <<hideTooltipTimer, timers, tooltips, tooltipBox, justHighlighted, pending,
                 sentenceCache, hotkeys, listeners, storage, storageEvents, badge,
                 settingsUpdated, lastAnalyzed>>

\* the popup's toggleHighlighting message arrives (the popup not modelled)
ToggleHighlighting(enabled) ==
  /\ OnToggleHighlighting(enabled)
  /\ UNCHANGED messages

(***************************************************************************)
(* SpecPage: the content script on the page: clicks, analysis responses,   *)
(* the popup's toggle, the pointer over the markers and the hide timer.    *)
(***************************************************************************)
NextPage ==
  \/ \E p \in ClickPoints : ClickAnalyze(p[1], p[2])
  \/ \E i \in 1..Len(pending), an \in AnalysisIds : AnalyzeResponse(i, an)
  \/ \E inMarker \in BOOLEAN : ClickPlain(inMarker)
  \/ \E enabled \in BOOLEAN : ToggleHighlighting(enabled)
  \/ \E m \in AllMarkerIds(doc) : MouseEnter(m)
  \/ MouseLeave
  \/ \E t \in timers : HideTimerFires(t)

SpecPage == Init /\ [][NextPage]_vars

(***************************************************************************)
(* SpecCache: the content script on a page where many sentences have been  *)
(* analysed before: sentenceCache is one or two entries below its maximum, *)
(* or at it.                                                               *)
(***************************************************************************)
\* the sentence of i letters z
SentenceN(i) == [j \in 1..i |-> "z"] \o <<".">>

\* n entries for sentences no longer on the page, oldest first
OldEntries(n) == [i \in 1..n |-> [key |-> SentenceN(i + 2), value |-> "zz"]]

\* the caches the page starts with: without and with an entry for Sentence2
\* as the oldest one
InitCaches ==
  {OldEntries(n) : n \in {CACHE_MAX_SIZE - 2, CACHE_MAX_SIZE - 1, CACHE_MAX_SIZE}}
  \cup {<<[key |-> Sentence2, value |-> "zz"]>> \o OldEntries(n) :
          n \in {CACHE_MAX_SIZE - 2, CACHE_MAX_SIZE - 1}}

InitCache ==
  \E cache \in InitCaches : InitWith(InitDoc, cache, TRUE, DefaultHotkeys)

CacheClickPoints == { <<"p1", 0>>, <<"p1", 4>> }

NextCache ==
  \/ \E p \in CacheClickPoints : ClickAnalyze(p[1], p[2])
  \/ \E i \in 1..Len(pending), an \in AnalysisIds : AnalyzeResponse(i, an)
  \/ \E inMarker \in BOOLEAN : ClickPlain(inMarker)

SpecCache == InitCache /\ [][NextCache]_vars

(***************************************************************************)
(* SpecKeys: the hotkey tests of handleClick.  A click event is the set of *)
(* its modifier properties that are true.                                  *)
(***************************************************************************)
AllModifiers == {"shiftKey", "ctrlKey", "altKey", "metaKey"}

\* modifiers.filter(m => m && m !== '')
FilterModifiers(modifiers) == SelectSeq(modifiers, LAMBDA m : m # "")

\* mutant: modifiers that are not required are not looked at
checkHotkeyIgnoringOthers(event, modifiers) ==
  LET required == FilterModifiers(modifiers)
  IN IF Len(required) = 0 THEN FALSE
     ELSE \A i \in 1..Len(required) : required[i] \in event

checkHotkey(event, modifiers) ==
  LET required == FilterModifiers(modifiers)
  IN IF Len(required) = 0 THEN FALSE
     ELSE IF \E i \in 1..Len(required) : required[i] \notin event THEN FALSE
     ELSE IF \E mod \in AllModifiers :
               mod \notin SeqToSet(required) /\ mod \in event
          THEN FALSE
          ELSE TRUE

\* the modifier lists checkHotkey is applied to: one or two names, '' included
ModifierLists ==
  {<<a>> : a \in AllModifiers \cup {""}}
  \cup {<<a, b>> : a \in AllModifiers \cup {""}, b \in AllModifiers \cup {""}}

\* the modifiers init() has loaded: the defaults or what the popup stored
HotkeySettings ==
  { DefaultHotkeys,
    [analyzeModifier |-> "altKey", ankiModifier1 |-> "ctrlKey",
     ankiModifier2 |-> "shiftKey"],
    [analyzeModifier |-> "shiftKey", ankiModifier1 |-> "altKey",
     ankiModifier2 |-> "altKey"],
    [analyzeModifier |-> "ctrlKey", ankiModifier1 |-> "ctrlKey",
     ankiModifier2 |-> "ctrlKey"] }

InitKeys == \E keys \in HotkeySettings : InitWith(InitDoc, <<>>, TRUE, keys)

\* checkHotkey(event, modifiers)
CheckHotkey(event, modifiers) ==
  /\ ~hung
  /\ last' = [Op("checkHotkey", Null, "null", <<>>, FALSE, FALSE, <<>>)
                EXCEPT !.event = event, !.modifiers = modifiers,
                       !.returned = checkHotkey(event, modifiers)]
  /\ UNCHANGED <<doc, currentHighlights, currentContainer, hideTooltipTimer,
                 timers, tooltips, tooltipBox, hovered, hung, isExtensionEnabled,
                 justHighlighted, pending, sentenceCache>>
  /\ UNCHANGED extvars

\* handleClick on a click event, up to the handler it chooses: "analyze"
\* (handleAnalyzeWord: the step ClickAnalyze), "anki" (handleSendToAnki) or
\* "none" (the click goes on to handleAutoClear: the step ClickPlain)
HandleClickBranch(event) ==
  /\ ~hung
  /\ listeners > 0
  /\ LET isAnalyzeHotkey == checkHotkey(event, <<hotkeys.analyzeModifier>>)
         isAnkiHotkey == checkHotkey(event, <<hotkeys.ankiModifier1,
                                              hotkeys.ankiModifier2>>)
     IN last' = [Op("handleClick", Null, "null", <<>>, FALSE, FALSE, <<>>)
                   EXCEPT !.event = event,
                          !.branch = IF ~isExtensionEnabled THEN "none"
                                     ELSE IF isAnalyzeHotkey THEN "analyze"
                                     ELSE IF isAnkiHotkey THEN "anki"
                                     ELSE "none"]
  /\ UNCHANGED <<doc, currentHighlights, currentContainer, hideTooltipTimer,
                 timers, tooltips, tooltipBox, hovered, hung, isExtensionEnabled,
                 justHighlighted, pending, sentenceCache>>
  /\ UNCHANGED extvars

NextKeys ==
  \/ \E event \in SUBSET AllModifiers, modifiers \in ModifierLists :
        CheckHotkey(event, modifiers)
  \/ \E event \in SUBSET AllModifiers : HandleClickBranch(event)
  \/ \E enabled \in BOOLEAN : ToggleHighlighting(enabled)

SpecKeys == InitKeys /\ [][NextKeys]_vars

(***************************************************************************)
(* SpecExtension: the popup's toggle, the background's badge and the       *)
(* content script of a page that was loaded while the stored flag was true *)
(* or false.                                                               *)
(***************************************************************************)
MaxQueued == 2

InitExtension ==
  \E enabled \in BOOLEAN : InitWith(InitDoc, <<>>, enabled, DefaultHotkeys)

\* chrome.storage.sync.set({enabled}): the value, and a change event for the
\* background when the value is new
StorageSet(enabled) ==
  /\ storage' = [storage EXCEPT !.enabled = enabled]
  /\ storageEvents' = IF storage.enabled # enabled
                      THEN Append(storageEvents, enabled)
                      ELSE storageEvents

\* popup.js handleToggleChange: the flag is stored, then the message is sent
\* to the active tab; without a listener in the tab sendMessage rejects and
\* the catch logs it
HandleToggleChange(enabled) ==
  /\ Len(storageEvents) < MaxQueued
  /\ Len(messages) < MaxQueued
  /\ StorageSet(enabled)
  /\ messages' = IF listeners > 0 THEN Append(messages, enabled) ELSE messages
  /\ last' = [Op("popupToggle", Null, "null", <<>>, FALSE, listeners > 0, <<>>)
                EXCEPT !.enabled = enabled]
  /\ UNCHANGED <<doc, currentHighlights, currentContainer, hideTooltipTimer,
                 timers, tooltips, tooltipBox, hovered, hung, isExtensionEnabled,
                 justHighlighted, pending, sentenceCache, hotkeys, listeners,
                 badge, settingsUpdated, lastAnalyzed>>

\* mutant: the change event is taken without a call of updateBadge
StorageChangedUnseen ==
  /\ storageEvents # <<>>
  /\ storageEvents' = Tail(storageEvents)
  /\ last' = Op("onChanged", Null, "null", <<>>, FALSE, FALSE, <<>>)
  /\ UNCHANGED <<doc, currentHighlights, currentContainer, hideTooltipTimer,
                 timers, tooltips, tooltipBox, hovered, hung, isExtensionEnabled,
                 justHighlighted, pending, sentenceCache, hotkeys, listeners,
                 storage, messages, badge, settingsUpdated, lastAnalyzed>>

\* background.js storage.onChanged listener: updateBadge(changes.enabled.newValue)
StorageChanged ==
  /\ storageEvents # <<>>
  /\ badge' = BadgeText(Head(storageEvents))
  /\ storageEvents' = Tail(storageEvents)
  /\ last' = Op("onChanged", Null, "null", <<>>, FALSE, FALSE, <<>>)
  /\ UNCHANGED <<doc, currentHighlights, currentContainer, hideTooltipTimer,
                 timers, tooltips, tooltipBox, hovered, hung, isExtensionEnabled,
                 justHighlighted, pending, sentenceCache, hotkeys, listeners,
                 storage, messages, settingsUpdated, lastAnalyzed>>

\* background.js runtime.onInstalled listener (installation or update)
OnInstalled ==
  /\ Len(storageEvents) < MaxQueued
  /\ StorageSet(TRUE)
  /\ badge' = BadgeText(TRUE)
  /\ last' = Op("onInstalled", Null, "null", <<>>, FALSE, FALSE, <<>>)
  /\ UNCHANGED <<doc, currentHighlights, currentContainer, hideTooltipTimer,
                 timers, tooltips, tooltipBox, hovered, hung, isExtensionEnabled,
                 justHighlighted, pending, sentenceCache, hotkeys, listeners,
                 messages, settingsUpdated, lastAnalyzed>>

\* the tab's onMessage listener gets the oldest toggleHighlighting message
DeliverToggle ==
  /\ messages # <<>>
  /\ OnToggleHighlighting(Head(messages))
  /\ messages' = Tail(messages)

NextExtension ==
  \/ \E enabled \in BOOLEAN : HandleToggleChange(enabled)
  \/ StorageChanged
  \/ OnInstalled
  \/ DeliverToggle
  \/ ClickAnalyze("p1", 0)
  \/ \E i \in 1..Len(pending), an \in AnalysisIds : AnalyzeResponse(i, an)
  \/ ClickPlain(FALSE)

SpecExtension == InitExtension /\ [][NextExtension]_vars

(***************************************************************************)
(* SpecSettings: the popup's settings form, its settingsUpdated message    *)
(* and the content script's init() that the message starts.               *)
(***************************************************************************)
MaxListeners == 4

\* the characters a URL's scheme is made of
SchemeChars == {"a"}

\* new URL(url) throws: without a base, a string is a URL only if it starts
\* with a scheme (a letter, then letters, digits, + - .) and a colon.  With
\* the scheme a, aa, ... (not one of http, https, ws, wss, ftp, file) anything
\* may follow the colon.
newURLThrows(url) ==
  ~ \E k \in 2..Len(url) : /\ url[k] = ":"
                           /\ \A j \in 1..(k - 1) : url[j] \in SchemeChars

\* what is typed into the backend URL and Anki URL inputs
UrlInputs == { <<>>, <<":", "a">>, <<" ", "a", ":">> }

\* what is typed into the Anki deck and note type inputs
NameInputs == { <<>>, <<" ">>, <<"a">> }

\* ENVIRONMENTS[environment].backendUrl: '' for custom
EnvironmentUrl(environment) ==
  IF environment = "custom" THEN <<>> ELSE <<"a", ":", "a">>

\* the modifiers chosen in the popup's selects
FormHotkeys ==
  { DefaultHotkeys,
    [analyzeModifier |-> "altKey", ankiModifier1 |-> "ctrlKey",
     ankiModifier2 |-> "altKey"] }

\* the popup's inputs when Save is clicked: the backend URL can be edited
\* for the custom environment only (updateBackendUrlState), else it is the
\* environment's (handleEnvironmentChange)
Forms ==
  { f \in { [environment |-> e, backendUrl |-> b,
             analyzeModifier |-> k.analyzeModifier,
             ankiModifier1 |-> k.ankiModifier1,
             ankiModifier2 |-> k.ankiModifier2,
             ankiUrl |-> u, ankiDeck |-> d, ankiNoteType |-> n] :
               e \in {"railway", "custom"}, b \in UrlInputs, k \in FormHotkeys,
               u \in UrlInputs, d \in NameInputs, n \in NameInputs } :
      f.environment # "custom" => f.backendUrl = EnvironmentUrl(f.environment) }

\* mutant: the deck and the note type are not validated
HandleSaveSettingsAnyNames(form) ==
  /\ settingsUpdated < MaxQueued
  /\ LET backendUrl == trim(form.backendUrl)
         ankiUrl == trim(form.ankiUrl)
         ankiDeck == trim(form.ankiDeck)
         ankiNoteType == trim(form.ankiNoteType)
         valid == ~newURLThrows(backendUrl) /\ ~newURLThrows(ankiUrl)
     IN /\ storage' = IF valid
                      THEN [storage EXCEPT !.settings =
                              [form EXCEPT !.backendUrl = backendUrl,
                                           !.ankiUrl = ankiUrl,
                                           !.ankiDeck = ankiDeck,
                                           !.ankiNoteType = ankiNoteType]]
                      ELSE storage
        /\ settingsUpdated' = IF valid /\ listeners > 0
                              THEN settingsUpdated + 1 ELSE settingsUpdated
        /\ last' = [Op("saveSettings", Null, "null", <<>>, FALSE, listeners > 0, <<>>)
                      EXCEPT !.form = form, !.saved = valid]
  /\ UNCHANGED <<doc, currentHighlights, currentContainer, hideTooltipTimer,
                 timers, tooltips, tooltipBox, hovered, hung, isExtensionEnabled,
                 justHighlighted, pending, sentenceCache, hotkeys, listeners,
                 storageEvents, badge, messages, lastAnalyzed>>

\* popup.js handleSaveSettings: the four text inputs are trimmed and
\* validated; the eight settings are stored (enabled is not among them, so the
\* background's onChanged listener does nothing); settingsUpdated is sent to
\* the active tab; without a listener in the tab sendMessage rejects and the
\* catch logs it
HandleSaveSettings(form) ==
  /\ settingsUpdated < MaxQueued
  /\ LET backendUrl == trim(form.backendUrl)
         ankiUrl == trim(form.ankiUrl)
         ankiDeck == trim(form.ankiDeck)
         ankiNoteType == trim(form.ankiNoteType)
         valid == /\ ~newURLThrows(backendUrl) /\ ~newURLThrows(ankiUrl)
                  /\ ankiDeck # <<>> /\ ankiNoteType # <<>>
     IN /\ storage' = IF valid
                      THEN [storage EXCEPT !.settings =
                              [form EXCEPT !.backendUrl = backendUrl,
                                           !.ankiUrl = ankiUrl,
                                           !.ankiDeck = ankiDeck,
                                           !.ankiNoteType = ankiNoteType]]
                      ELSE storage
        /\ settingsUpdated' = IF valid /\ listeners > 0
                              THEN settingsUpdated + 1 ELSE settingsUpdated
        /\ last' = [Op("saveSettings", Null, "null", <<>>, FALSE, listeners > 0, <<>>)
                      EXCEPT !.form = form, !.saved = valid]
  /\ UNCHANGED <<doc, currentHighlights, currentContainer, hideTooltipTimer,
                 timers, tooltips, tooltipBox, hovered, hung, isExtensionEnabled,
                 justHighlighted, pending, sentenceCache, hotkeys, listeners,
                 storageEvents, badge, messages, lastAnalyzed>>

\* init()'s three modifiers from the stored settings
LoadHotkeys(settings) ==
  [analyzeModifier |-> IF settings.analyzeModifier = "" THEN "shiftKey"
                       ELSE settings.analyzeModifier,
   ankiModifier1 |-> IF settings.ankiModifier1 = "" THEN "ctrlKey"
                     ELSE settings.ankiModifier1,
   ankiModifier2 |-> IF settings.ankiModifier2 = "" THEN "shiftKey"
                     ELSE settings.ankiModifier2]

\* the tab gets a settingsUpdated message: every onMessage listener that
\* attachEventListeners has registered calls init(), and every init() that
\* finds the stored flag true calls attachEventListeners() again.  The two
\* click listeners are the same functions with the same capture flag, which
\* addEventListener registers once; the onMessage listener is a new function
\* each time and is registered again.
OnSettingsUpdated ==
  /\ ~hung
  /\ settingsUpdated > 0
  /\ listeners > 0
  /\ storage.enabled => 2 * listeners <= MaxListeners
  /\ settingsUpdated' = settingsUpdated - 1
  /\ isExtensionEnabled' = storage.enabled
  /\ hotkeys' = LoadHotkeys(storage.settings)
  /\ listeners' = IF storage.enabled THEN listeners + listeners ELSE listeners
  /\ last' = [Op("settingsUpdated", Null, "null", <<>>, FALSE, FALSE, <<>>)
                EXCEPT !.runs = listeners, !.enabled = storage.enabled]
  /\ UNCHANGED <<doc, currentHighlights, currentContainer, hideTooltipTimer,
                 timers, tooltips, tooltipBox, hovered, hung, justHighlighted,
                 pending, sentenceCache, storage, storageEvents, badge, messages,
                 lastAnalyzed>>

NextSettings ==
  \/ \E form \in Forms : HandleSaveSettings(form)
  \/ OnSettingsUpdated
  \/ \E event \in {{}, {"shiftKey"}, {"altKey"}} : HandleClickBranch(event)

SpecSettings == InitExtension /\ [][NextSettings]_vars

(***************************************************************************)
(* SpecAnki: clicks with the analyze hotkey and with the Anki hotkey on a  *)
(* page where the words ab and zz each occur in two different sentences.   *)
(***************************************************************************)
\* p1: "zz. ab cde ab."  p2: "ab zz."
AnkiDoc ==
  [c \in Containers |->
     IF c = "p1" THEN InitDoc["p1"]
     ELSE << TextNode(Sentence3, 0) >>]

InitAnki == InitWith(AnkiDoc, <<>>, TRUE, DefaultHotkeys)

\* zz and ab in p1, ab and zz in p2
AnkiClickPoints == { <<"p1", 0>>, <<"p1", 4>>, <<"p2", 0>>, <<"p2", 3>> }

AnkiAnalysisIds == {"null", "arr", "zz", "abzz"}

NextAnki ==
  \/ \E p \in AnkiClickPoints : ClickAnalyze(p[1], p[2])
  \/ \E p \in AnkiClickPoints : ClickAnki(p[1], p[2])
  \/ \E i \in 1..Len(pending), an \in AnkiAnalysisIds : AnalyzeResponse(i, an)

SpecAnki == InitAnki /\ [][NextAnki]_vars

(***************************************************************************)
(* SpecFaulty: the Highlighter on a page where a DOM call throws on one    *)
(* text node: Range.setStart (highlightTextNode's outer catch: the node is *)
(* left as it is) or Range.surroundContents (the inner catch wraps with    *)
(* extractContents and insertNode).                                        *)
(***************************************************************************)
Raising(d, c, i, call) == [d EXCEPT ![c][i].raises = call]

FaultyDocs ==
  { Raising(InitDoc, "p1", 1, "setStart"),
    Raising(InitDoc, "p1", 2, "setStart"),
    Raising(InitDoc, "p1", 2, "surroundContents"),
    Raising(InitDoc, "p2", 1, "setStart") }

InitFaulty == \E d \in FaultyDocs : InitWith(d, <<>>, TRUE, DefaultHotkeys)

FaultyAnalysisIds == {"arr", "chain", "zz"}

FaultyWords == { <<"A","b">>, <<"c","d","e">>, <<"z","z">> }

NextFaulty ==
  \/ \E c \in Containers, an \in FaultyAnalysisIds, word \in FaultyWords :
        ApplyHighlights(c, an, word)
  \/ \E c \in Containers : ClearHighlights(c)
  \/ ClearAllHighlights

SpecFaulty == InitFaulty /\ [][NextFaulty]_vars

(***************************************************************************)
(* SpecScenario: the Highlighter on the sentence "Ich stehe um 7 Uhr auf." *)
(* in one text node (p1) and with an inline element inside "stehe" (p2),   *)
(* with the response of the backend's documentation (auf at 21) and with   *)
(* auf at its offset in the sentence (19).                                 *)
(***************************************************************************)
ScenarioDoc ==
  [c \in Containers |->
     IF c = "p1"
     THEN << TextNode(SentenceAuf, 0) >>
     ELSE << TextNode(SubSeq(SentenceAuf, 1, 4), 0),
             TextNode(SubSeq(SentenceAuf, 5, 7), 1),
             TextNode(SubSeq(SentenceAuf, 8, Len(SentenceAuf)), 0) >>]

InitScenario == InitWith(ScenarioDoc, <<>>, TRUE, DefaultHotkeys)

ScenarioAnalysisIds == {"aufstehen", "aufstehen19"}

ScenarioWords == { <<"a","u","f">>, <<"s","t","e","h","e">> }

NextScenario ==
  \/ \E c \in Containers, an \in ScenarioAnalysisIds, word \in ScenarioWords :
        ApplyHighlights(c, an, word)
  \/ \E c \in Containers : ClearHighlights(c)
  \/ ClearAllHighlights
  \/ \E m \in AllMarkerIds(doc) : MouseEnter(m)
  \/ MouseLeave
  \/ \E t \in timers : HideTimerFires(t)

SpecScenario == InitScenario /\ [][NextScenario]_vars

(***************************************************************************)
(* SpecSentence: extractSentence applied to every text of up to MaxTextLen *)
(* characters and every position in it.                                    *)
(***************************************************************************)
MaxTextLen == 4

TextAlphabet == {"a", " ", ".", "?"}

Texts == UNION {[1..n -> TextAlphabet] : n \in 0..MaxTextLen}

\* extractSentence(text, position)
ExtractSentence(text, position) ==
  /\ ~hung
  /\ last' = [Op("extract", Null, "null", <<>>, FALSE, FALSE, text)
                EXCEPT !.position = position,
                       !.sentence = extractSentence(text, position)]
  /\ UNCHANGED <<doc, currentHighlights, currentContainer, hideTooltipTimer,
                 timers, tooltips, tooltipBox, hovered, hung, isExtensionEnabled,
                 justHighlighted, pending, sentenceCache>>
  /\ UNCHANGED extvars

NextSentence ==
  \E text \in Texts : \E position \in 0..Len(text) :
     ExtractSentence(text, position)

SpecSentence == Init /\ [][NextSentence]_vars

(***************************************************************************)
(* Properties.                                                             *)
(***************************************************************************)
\* the tokens of the last call's analysis and what the call selected
LastTokens == Analysis(last.an).tokens

LastSelected == findTokensToHighlight(LastTokens, last.word)

\* where the last call's sentence was in the container before the call
LastBase == indexOf(last.text0, SentenceOf(last.an))

NoTokenMatches(tokens, word) ==
  \A i \in 1..Len(tokens) : toLowerCase(tokens[i].text) # toLowerCase(word)

\* the character positions of the flattened text that are inside a marker
CoveredPositions(nodes) ==
  {k \in 0..(Len(textContent(nodes)) - 1) :
     nodes[CaretNode(nodes, k)].mk # NoMarker}

\* C1: applyHighlights on a container whose text contains the sentence,
\* followed by clearHighlights on it, leaves container.textContent equal to
\* its value before the highlight.
C1_RoundTrip ==
  (last.op = "clear" /\ last.afterApply /\ LastBase # -1)
    => textContent(doc[last.c]) = last.text0

C1_Witness ==
  /\ last.op = "clear" /\ last.afterApply /\ LastBase # -1
  /\ last.had
  /\ MarkerIds(doc[last.c]) = {}
  /\ textContent(doc[last.c]) = last.text0

\* C2: when applyHighlights finds the sentence at base offset b, the
\* positions of the container's text inside markers are exactly the union of
\* [b+start, b+end) over the selected tokens, for every split of the text
\* into text nodes.
C2_Coverage ==
  (last.op = "apply" /\ ~hung /\ Len(LastTokens) > 0 /\ LastBase # -1)
    => CoveredPositions(doc[last.c]) =
         UNION {(LastBase + LastTokens[i].start)..(LastBase + LastTokens[i].end - 1) :
                  i \in SeqToSet(LastSelected)}

\* C3: every token whose start is listed in the paired_with (an array of
\* offsets or a single offset, from 0 upward) of the first token that
\* matches the target word is in the result of findTokensToHighlight.
C3_PairingSymmetry ==
  last.op = "apply" =>
    LET A == FindByText(LastTokens, last.word)
    IN A # 0 =>
         \A B \in 1..Len(LastTokens) :
            LastTokens[B].start \in SeqToSet(LastTokens[A].paired_with.val)
              => B \in SeqToSet(LastSelected)

\* C4 as claimed: an applyHighlights that follows an applyHighlights on the
\* same container leaves in it exactly the markers it created and none of
\* the earlier ones, for every input.
C4_OnlySecondMarkers ==
  [][(last.op = "apply" /\ last'.op = "apply" /\ last'.c = last.c)
       => /\ MarkerIds(doc'[last.c]) \cap MarkerIds(doc[last.c]) = {}
          /\ MarkerIds(doc'[last.c]) = SeqToSet(currentHighlights')]_vars

\* C4 as amended: the same for every second call whose analysis holds at
\* least one token (a call with a null or empty analysis returns at once).
C4_OnlySecondMarkersOfTokens ==
  [][(/\ last.op = "apply" /\ last'.op = "apply" /\ last'.c = last.c
      /\ ~Analysis(last'.an).isNull /\ Len(Analysis(last'.an).tokens) > 0)
       => /\ MarkerIds(doc'[last.c]) \cap MarkerIds(doc[last.c]) = {}
          /\ MarkerIds(doc'[last.c]) = SeqToSet(currentHighlights')]_vars

C4_Witness ==
  /\ last.op = "apply" /\ last.afterApply /\ last.had
  /\ Len(LastTokens) > 0
  /\ MarkerIds(doc[last.c]) # {}
  /\ ~hung

\* C5: the document holds at most one tooltip element, whatever the
\* interleaving of hover-enter, hover-leave, timer expiry, highlight and clear.
C5_SingleTooltip == tooltips <= 1

C5_Witness == last.op = "enter" /\ last.had /\ tooltips = 1

\* C6 as claimed: all markers in the document lie inside the container
\* recorded as currentContainer.
C6_AllInCurrentContainer ==
  \A m \in AllMarkerIds(doc) : m[1] = currentContainer

\* C6 as amended: the markers tracked in currentHighlights are attached
\* inside the one container recorded as currentContainer (markers of a
\* container highlighted earlier may remain beside them).
C6_TrackedInCurrentContainer ==
  currentHighlights # <<>> =>
    /\ currentContainer # Null
    /\ SeqToSet(currentHighlights) \subseteq MarkerIds(doc[currentContainer])

C6_Witness ==
  /\ last.op = "apply"
  /\ currentHighlights # <<>>
  /\ \E m \in AllMarkerIds(doc) : m[1] # currentContainer

\* C7: with the extension enabled and markers in the document, a click
\* without hotkey on a target outside every marker removes all markers.
C7_UnrelatedClickClears ==
  (last.op = "click" /\ last.c = Null /\ last.had /\ isExtensionEnabled)
    => AllMarkerIds(doc) = {}

\* C8: whenever the enabled flag is false the document holds no marker.
C8_DisabledNoMarkers == ~isExtensionEnabled => AllMarkerIds(doc) = {}

\* C9 as claimed: if the sentence does not occur in container.textContent,
\* applyHighlights leaves the container's DOM exactly as it was.
C9_DomUntouched ==
  [][(/\ last'.op = "apply"
      /\ indexOf(textContent(doc[last'.c]), SentenceOf(last'.an)) = -1)
       => doc'[last'.c] = doc[last'.c]]_vars

\* C9 as amended: it creates no marker and leaves textContent unchanged; it
\* leaves the DOM exactly as it was when the container held no marker (the
\* markers already there are removed by the clear that precedes the lookup).
C9_NoMarkerCreated ==
  [][(/\ last'.op = "apply"
      /\ indexOf(textContent(doc[last'.c]), SentenceOf(last'.an)) = -1)
       => /\ MarkerIds(doc'[last'.c]) \subseteq MarkerIds(doc[last'.c])
          /\ Len(Analysis(last'.an).tokens) > 0 => MarkerIds(doc'[last'.c]) = {}
          /\ textContent(doc'[last'.c]) = textContent(doc[last'.c])
          /\ MarkerIds(doc[last'.c]) = {} => doc'[last'.c] = doc[last'.c]]_vars

C9_Witness ==
  /\ last.op = "apply" /\ LastBase = -1 /\ Len(LastTokens) > 0
  /\ ~NoTokenMatches(LastTokens, last.word)
  /\ last.had
  /\ MarkerIds(doc[last.c]) = {}

\* C10: if no token's text equals the target word ignoring case,
\* findTokensToHighlight returns an empty list, applyHighlights creates no
\* marker and container.textContent is unchanged.
C10_NoMatchingToken ==
  [][(last'.op = "apply" /\ NoTokenMatches(Analysis(last'.an).tokens, last'.word))
       => /\ findTokensToHighlight(Analysis(last'.an).tokens, last'.word) = <<>>
          /\ MarkerIds(doc'[last'.c]) \subseteq MarkerIds(doc[last'.c])
          /\ textContent(doc'[last'.c]) = textContent(doc[last'.c])]_vars

C10_Witness ==
  /\ last.op = "apply" /\ LastBase # -1 /\ Len(LastTokens) > 0
  /\ NoTokenMatches(LastTokens, last.word)
  /\ last.had
  /\ MarkerIds(doc[last.c]) = {}

\* C11: clearHighlights on a container that holds no marker changes nothing
\* in the DOM; clearHighlights called twice in succession on a container
\* leaves the DOM the first call left.
C11_IdempotentClear ==
  [][/\ (last'.op = "clear" /\ (last'.c = Null \/ MarkerIds(doc[last'.c]) = {}))
          => doc' = doc
     /\ (last.op = "clear" /\ last'.op = "clear" /\ last'.c = last.c)
          => doc' = doc]_vars

C11_Witness ==
  /\ last.op = "clear" /\ last.c # Null /\ ~last.had
  /\ AllMarkerIds(doc) # {}
  /\ MarkerIds(doc[last.c]) = {}

\* C12: after clearAllHighlights the document holds no marker, the tracked
\* marker list is empty and the tracked container is null.
C12_ClearAll ==
  last.op = "clearAll" =>
    /\ AllMarkerIds(doc) = {}
    /\ currentHighlights = <<>>
    /\ currentContainer = Null

C12_Witness ==
  /\ last.op = "clearAll" /\ last.had
  /\ doc = InitDoc
  /\ currentContainer = Null

\* the tokens of the last call whose text is the target word ignoring case
LastMatches ==
  {i \in 1..Len(LastTokens) :
     toLowerCase(LastTokens[i].text) = toLowerCase(last.word)}

\* C13: the first element of findTokensToHighlight(tokens, w) is the
\* lowest-index token whose text equals w ignoring case; the result is empty
\* when none matches.
C13_FirstMatchWins ==
  last.op = "apply" =>
    IF LastMatches = {} THEN LastSelected = <<>>
    ELSE /\ LastSelected # <<>>
         /\ LastSelected[1] \in LastMatches
         /\ \A i \in LastMatches : LastSelected[1] <= i

C13_Witness ==
  /\ last.op = "apply"
  /\ Cardinality(LastMatches) > 1
  /\ LastSelected[1] = 1

\* the start offsets listed in the paired_with of the last call's target
LastPaired == LastTokens[LastSelected[1]].paired_with.val

\* C14: the result of findTokensToHighlight holds only the target token and
\* tokens whose start is listed in the target's paired_with, none twice, and
\* at most 1 + |paired_with| of them.
C14_OneLevelExpansion ==
  (last.op = "apply" /\ LastSelected # <<>>) =>
    /\ \A k \in 2..Len(LastSelected) :
          LastTokens[LastSelected[k]].start \in SeqToSet(LastPaired)
    /\ \A j, k \in 1..Len(LastSelected) : j # k => LastSelected[j] # LastSelected[k]
    /\ Len(LastSelected) <= 1 + Len(LastPaired)

C14_Witness ==
  /\ last.op = "apply" /\ LastSelected # <<>>
  /\ \E k \in 1..Len(LastSelected) :
        /\ LastTokens[LastSelected[k]].paired_with.val # <<>>
        /\ \E q \in SeqToSet(LastTokens[LastSelected[k]].paired_with.val) :
              /\ q \notin SeqToSet(LastPaired)
              /\ \E i \in 1..Len(LastTokens) :
                    LastTokens[i].start = q /\ i \notin SeqToSet(LastSelected)

\* C15 as claimed: hideTooltip called while a hide timer is pending keeps
\* that timer.
C15_PendingHideKept ==
  [][(last'.op \in {"hide", "leave"} /\ hideTooltipTimer # 0)
       => (hideTooltipTimer' = hideTooltipTimer /\ timers' = timers)]_vars

\* C15 as amended: hideTooltip called while a hide timer is pending cancels
\* that timer and starts a new one, the only one pending afterwards; the
\* tooltip is removed when a pending timer expires.
C15_PendingHideRestarted ==
  [][/\ (last'.op \in {"hide", "leave"} /\ hideTooltipTimer # 0)
          => /\ hideTooltipTimer \notin timers'
             /\ hideTooltipTimer' # hideTooltipTimer
             /\ timers' = {hideTooltipTimer'}
     /\ last'.op = "timer" => (tooltips' = 0 /\ hideTooltipTimer' = 0)]_vars

C15_Witness ==
  /\ last.op = "hide" /\ last.timed /\ last.had
  /\ tooltips = 1
  /\ timers = {hideTooltipTimer}

\* C16 as claimed: after hideTooltipImmediately no tooltip element exists
\* and no hide timer is pending.
C16_HiddenAndNoTimer ==
  last.op = "hideNow" =>
    (tooltips = 0 /\ hideTooltipTimer = 0 /\ timers = {})

\* C16 as amended: after hideTooltipImmediately no tooltip element exists; a
\* pending hide timer and its handle are left as they were.
C16_HiddenTimerLeft ==
  [][last'.op = "hideNow"
       => (tooltips' = 0 /\ hideTooltipTimer' = hideTooltipTimer
           /\ timers' = timers)]_vars

C16_Witness ==
  /\ last.op = "hideNow" /\ last.had /\ last.timed
  /\ tooltips = 0
  /\ timers # {}

\* C17: right after showTooltip, also one that runs while a hide timer is
\* pending, exactly one tooltip exists and no timer is pending, so no timer
\* started before it can remove its tooltip.
C17_EnterCancelsHide ==
  last.op = "enter" =>
    (tooltips = 1 /\ hideTooltipTimer = 0 /\ timers = {})

C17_Witness ==
  /\ last.op = "enter" /\ last.timed
  /\ tooltips = 1
  /\ timers = {}

\* C18: after a hover-leave, unless a further hover-enter occurs, the hide
\* timer eventually fires: the tooltip is removed and the handle is null.
C18_EventuallyHidden ==
  (last.op = "leave")
    ~> (last.op = "enter" \/ (tooltips = 0 /\ hideTooltipTimer = 0))

\* C19: after showTooltip the tooltip's rectangle lies inside the viewport,
\* for every marker rectangle, tooltip size and viewport size.
C19_TooltipInViewport ==
  (last.op = "enter" /\ tooltips = 1) =>
    /\ 0 <= tooltipBox.left
    /\ tooltipBox.left + tooltipBox.width <= last.geo.innerWidth
    /\ 0 <= tooltipBox.top
    /\ tooltipBox.top + tooltipBox.height <= last.geo.innerHeight

\* what the handler of the click k = <<container, word, sentence>> leaves in
\* the document when its analysis succeeds
HighlightOfClick(k) ==
  HighlightAnalysis(HState, k[1], CHOOSE an \in Responses(k[3]) : an # "null",
                    k[3], k[2])

\* C20: when two analyze clicks are handled with overlapping analysis
\* requests and both handlers have completed, the markers in the document
\* are those of the later click, whatever the order of the responses.
C20_LastWriteWins ==
  (last.op = "highlight" /\ last.later # <<>> /\ pending = <<>> /\ ~hung) =>
    \A c \in Containers :
       CoveredPositions(doc[c]) = CoveredPositions(HighlightOfClick(last.later).doc[c])

\* C21: the cache is least-recently-used, a hit counting as a use: the entry
\* that the operation just before an insertion found in the cache is the most
\* recently used one, so an insertion into the full cache does not evict it.
C21_HitSurvivesEviction ==
  [][(/\ last.hit
      /\ Len(sentenceCache) >= CACHE_MAX_SIZE
      /\ sentenceCache' # sentenceCache)
     => cacheGet(sentenceCache', last.sentence) # "null"]_vars

\* C22: sentenceCache never holds more than CACHE_MAX_SIZE entries (and no
\* sentence twice), whatever the order of clicks and responses.
C22_CacheBound ==
  /\ Len(sentenceCache) <= CACHE_MAX_SIZE
  /\ \A i \in 1..Len(sentenceCache), j \in 1..Len(sentenceCache) :
        sentenceCache[i].key = sentenceCache[j].key => i = j

\* an insertion into the full cache has deleted the oldest entry
C22_Witness ==
  /\ last.op = "highlight" /\ ~last.hit
  /\ Len(sentenceCache) = CACHE_MAX_SIZE
  /\ sentenceCache[Len(sentenceCache)].key = last.sentence
  /\ sentenceCache[1].key = SentenceN(4)

\* the set of non-empty required modifiers
RequiredSet(modifiers) == SeqToSet(modifiers) \ {""}

C24_ToggleOnEnables ==
  (last.op \in {"popupToggle", "toggle"} /\ last.enabled /\ messages = <<>>)
  => (isExtensionEnabled /\ listeners > 0)

\* C25: when the background has seen every change of the stored flag, the
\* badge text is ON if the flag is true and OFF if it is false.
C25_BadgeFollowsFlag ==
  storageEvents = <<>> => badge = (IF storage.enabled THEN "ON" ELSE "OFF")

\* the flag was switched off and the background has got the change
C25_Witness ==
  /\ last.op = "onChanged"
  /\ storageEvents = <<>>
  /\ ~storage.enabled
  /\ badge = "OFF"

\* the positions of the selected tokens of the last applyHighlights
LastTokenPositions ==
  UNION {(LastBase + LastTokens[i].start)..(LastBase + LastTokens[i].end - 1) :
           i \in SeqToSet(LastSelected)}

\* C26: when setStart throws on a text node that holds a fragment of a
\* selected token, applyHighlights returns and every other position of the
\* selected tokens, in the same token or in another one, is inside a marker.
C26_FailuresLocal ==
  (/\ last.op = "apply" /\ Len(LastTokens) > 0 /\ LastBase # -1
   /\ last.faulty \cap LastTokenPositions # {})
  => /\ ~hung
     /\ LastTokenPositions \ last.faulty \subseteq CoveredPositions(doc[last.c])

\* the positions of the words "stehe" and "auf" in SentenceAuf
WordPositionsAuf ==
  LET stehe == indexOf(SentenceAuf, <<"s","t","e","h","e">>)
      auf == indexOf(SentenceAuf, <<"a","u","f">>)
  IN (stehe..(stehe + 4)) \cup (auf..(auf + 2))

\* C27: applyHighlights for "auf" or for "stehe" with the tokens stehe [4,9)
\* and auf [21,24) of "Ich stehe um 7 Uhr auf.", paired with each other,
\* returns with markers that cover exactly the words "stehe" and "auf", each
\* one stamped with lemma aufstehen and separable = true.
C27_SeparableScenario ==
  (last.op = "apply" /\ last.an = "aufstehen")
  => /\ ~hung
     /\ CoveredPositions(doc[last.c]) = WordPositionsAuf
     /\ \A i \in 1..Len(doc[last.c]) :
           doc[last.c][i].mk # NoMarker =>
             doc[last.c][i].data = [lemma |-> "aufstehen", separable |-> TRUE]

\* C28: no marker is inside another marker, and no marker holds more than
\* the one text node it was wrapped around: the text inside a marker is not
\* wrapped again.
C28_NoNestedMarkers ==
  \A c \in Containers :
     /\ \A i \in 1..Len(doc[c]) : doc[c][i].anc = <<>>
     /\ \A i \in 1..Len(doc[c]), j \in 1..Len(doc[c]) :
           (doc[c][i].mk # NoMarker /\ doc[c][i].mk = doc[c][j].mk) => i = j

\* the token ab of "a" + "b." was highlighted: the walk came to the text
\* inside the marker it had just put around "a"
C28_Witness ==
  /\ last.op = "apply" /\ last.c = "p1" /\ ~hung
  /\ 7 \in SeqToSet([i \in 1..Len(LastSelected) |-> LastTokens[LastSelected[i]].start])
  /\ LastBase = 4
  /\ 11 \in CoveredPositions(doc["p1"])
  /\ 12 \notin CoveredPositions(doc["p1"])

\* C29: the flattened text of every container is what it was when the page
\* was loaded, in every state reached by applyHighlights, hover-leave,
\* clearHighlights and clearAllHighlights.
C29_TextNeverAltered ==
  \A c \in Containers : textContent(doc[c]) = textContent(InitDoc[c])

\* an applyHighlights has split a text node and put a marker in between
C29_Witness ==
  /\ last.op = "apply"
  /\ MarkerIds(doc[last.c]) # {}
  /\ Len(doc[last.c]) > Len(InitDoc[last.c])
  /\ textContent(doc[last.c]) = last.text0

\* C30: the step in which the pointer leaves a marker removes every marker
\* of the container that was current when the marker was created, leaves a
\* hide timer pending and leaves the tooltip as it is.
C30_LeaveClearsContainer ==
  [][last'.op = "leave"
     => /\ MarkerIds(doc'[last'.c]) = {}
        /\ hideTooltipTimer' # 0
        /\ hideTooltipTimer' \in timers'
        /\ tooltips' = tooltips
        /\ tooltipBox' = tooltipBox]_vars

\* the pointer has left a marker whose tooltip was shown: the container has
\* no marker, the tooltip is still there and its hide timer is pending
C30_Witness ==
  /\ last.op = "leave" /\ last.had
  /\ MarkerIds(doc[last.c]) = {}
  /\ tooltips = 1
  /\ hideTooltipTimer \in timers

\* C31: when the document holds no marker and no hide timer is pending, it
\* holds no tooltip.
C31_NoOrphanTooltip ==
  (AllMarkerIds(doc) = {} /\ hideTooltipTimer = 0) => tooltips = 0

\* C37 as claimed: currentHighlights holds exactly the markers attached to
\* the document, and after clearHighlights(container) or clearAllHighlights
\* the list is empty and currentContainer is null.
C37_RegistryExact ==
  /\ SeqToSet(currentHighlights) = AllMarkerIds(doc)
  /\ ((last.op = "clear" /\ last.c # Null) \/ last.op = "clearAll")
       => (currentHighlights = <<>> /\ currentContainer = Null)

\* C37 as amended: currentHighlights holds only markers attached to the
\* document; clearAllHighlights empties the list and sets currentContainer to
\* null; clearHighlights on a container empties the list and leaves
\* currentContainer as it is.
C37_RegistryReset ==
  [][/\ SeqToSet(currentHighlights') \subseteq AllMarkerIds(doc')
     /\ last'.op = "clearAll"
          => (currentHighlights' = <<>> /\ currentContainer' = Null)
     /\ (last'.op = "clear" /\ last'.c # Null)
          => (currentHighlights' = <<>> /\ currentContainer' = currentContainer)]_vars

\* clearHighlights has removed the markers of the current container: the
\* list is empty, currentContainer still names the container
C37_Witness ==
  /\ last.op = "clear" /\ last.c # Null /\ last.had
  /\ currentHighlights = <<>>
  /\ currentContainer = last.c

\* C33: what extractSentence(text, p) returns occurs in text as a contiguous
\* substring and holds none of ".", "!", "?" before its last character.
C33_LocatableSentence ==
  last.op = "extract" =>
    /\ indexOf(last.text0, last.sentence) # -1
    /\ \A i \in 1..(Len(last.sentence) - 1) : last.sentence[i] \notin SentenceEnd

\* a position on a sentence end between two sentences, blanks trimmed
C33_Witness ==
  /\ last.op = "extract"
  /\ last.text0 = <<" ", "a", ".", "a">>
  /\ last.position = 2
  /\ last.sentence = <<"a", ".">>

\* the sentences that have an entry in sentenceCache
CachedSentences == {sentenceCache[i].key : i \in 1..Len(sentenceCache)}

\* C34: a step that sends an analysis request is a click on a sentence with
\* no entry in sentenceCache; an analyze click on a word that is not
\* highlighted at once sends a request; a click that found its sentence in
\* sentenceCache sends no request and highlights from the entry's analysis.
C34_HitAvoidsRequest ==
  [][/\ Len(pending') > Len(pending)
          => pending'[Len(pending')].sentence \notin CachedSentences
     /\ (last'.op = "analyze" /\ last'.word # <<>>)
          => Len(pending') = Len(pending) + 1
     /\ (last'.op = "highlight" /\ last'.hit)
          => /\ Len(pending') = Len(pending)
             /\ \E i \in 1..Len(sentenceCache) :
                   /\ sentenceCache[i].key = last'.sentence
                   /\ sentenceCache[i].value = last'.an]_vars

\* a click on a cached sentence was highlighted while a request was in flight
C34_Witness ==
  /\ last.op = "highlight" /\ last.hit
  /\ last.sentence \in CachedSentences
  /\ Len(pending) = 1
  /\ pending[1].sentence \notin CachedSentences
  /\ MarkerIds(doc[last.c]) # {}

\* C35: a save of the popup's settings whose backend URL or Anki URL is not
\* a valid URL, or whose Anki deck or note type is empty, leaves the storage
\* as it was and sends no settingsUpdated message.
C35_RejectedSavesNothing ==
  [][ (/\ last'.op = "saveSettings"
       /\ \/ newURLThrows(trim(last'.form.backendUrl))
          \/ newURLThrows(trim(last'.form.ankiUrl))
          \/ trim(last'.form.ankiDeck) = <<>>
          \/ trim(last'.form.ankiNoteType) = <<>>)
      => (storage' = storage /\ settingsUpdated' = settingsUpdated) ]_vars

\* a save with an empty note type was rejected while settings saved before
\* are in the storage and the tab has a listener for the message
C35_Witness ==
  /\ last.op = "saveSettings"
  /\ ~newURLThrows(trim(last.form.backendUrl))
  /\ ~newURLThrows(trim(last.form.ankiUrl))
  /\ trim(last.form.ankiDeck) # <<>>
  /\ trim(last.form.ankiNoteType) = <<>>
  /\ storage.settings # NoForm
  /\ storage.settings.analyzeModifier # last.form.analyzeModifier
  /\ listeners > 0

\* C36: when a settingsUpdated message has been handled, the content script
\* has one runtime message listener and init() has run once for the message.
C36_OneListener ==
  last.op = "settingsUpdated" => (listeners = 1 /\ last.runs = 1)

\* C32: what handleSendToAnki passes to sendToAnki is a token of an analysis
\* of the sentence the word was clicked in, with the word's text, and that
\* sentence.
C32_NoteMatchesClick ==
  last.anki.sent =>
    /\ last.anki.sentence = last.anki.clicked
    /\ last.anki.an \in Responses(last.anki.clicked) \ {"null"}
    /\ toLowerCase(last.anki.token.text) = toLowerCase(last.anki.word)

====
